---------------------------- MODULE Spec2Model ----------------------------
(***************************************************************************)
(* A model of the wire-format codec of mini-quiche: the variable-length    *)
(* integer (src/primitives/varint.rs), the bit fields (src/bits.rs), the   *)
(* frames (src/packet/frame.rs), the headers (src/packet/header.rs) and    *)
(* the packets (src/packet/packet.rs).                                     *)
(*                                                                         *)
(* Representation.  A byte is a number in 0..255 and a byte buffer         *)
(* (Vec<u8>) is a sequence of bytes.  A u64 is the sequence of its eight   *)
(* base-256 digits, most significant first, so that the full 64-bit range  *)
(* of the program is kept (TLC's own integers are 32 bits wide).  The      *)
(* result of a fallible call is a record: tag "Ok" with the value and the  *)
(* buffer left behind, tag "Err" with the QuicheError message, or tag      *)
(* "Panic" when the call aborts instead of returning.                      *)
(***************************************************************************)
EXTENDS Integers, Sequences, FiniteSets, TLC

VARIABLES pc, input, wire, output, state, kill, channels, tasks, call, held

\* the fields of a Connection and the tasks and channels around it
conn == <<state, kill, channels, tasks, call, held>>

vars == <<pc, input, wire, output, conn>>

\* the codec runs without a Connection
NoConnection ==
    /\ state = "Closed"
    /\ kill = <<>>
    /\ channels = <<>>
    /\ tasks = <<>>
    /\ call = ""
    /\ held = <<>>

(***************************************************************************)
(* Results                                                                 *)
(***************************************************************************)
Ok(v, rest) == [tag |-> "Ok", val |-> v, rest |-> rest, err |-> ""]

Err(e, rest) == [tag |-> "Err", val |-> <<>>, rest |-> rest, err |-> e]

Panic(msg) == [tag |-> "Panic", val |-> <<>>, rest |-> <<>>, err |-> msg]

NoResult == [tag |-> "None", val |-> <<>>, rest |-> <<>>, err |-> ""]

ErrValueExceedsMaximum == "VarInt value exceeds maximum"

ErrFrameEncoding == "Transport error: FrameEncodingError"

ErrCryptoBufferExceeded == "Transport error: CryptoBufferExceeded"

PanicIndex == "index out of bounds"

PanicUnreachable == "entered unreachable code"

PanicCapacity == "capacity overflow"

PanicUnwrap == "called unwrap on an Err value"

(***************************************************************************)
(* Bytes and bits                                                          *)
(***************************************************************************)
Byte == 0..255

RECURSIVE BitAnd(_, _)
BitAnd(a, b) ==
    IF a = 0 \/ b = 0 THEN 0
    ELSE (a % 2) * (b % 2) + 2 * BitAnd(a \div 2, b \div 2)

RECURSIVE BitOr(_, _)
BitOr(a, b) ==
    IF a = 0 THEN b
    ELSE IF b = 0 THEN a
    ELSE (IF a % 2 = 1 \/ b % 2 = 1 THEN 1 ELSE 0) + 2 * BitOr(a \div 2, b \div 2)

\* `x as u8`
AsU8(x) == x % 256

\* Vec::drain(..n) / the bytes that stay
Take(s, n) == SubSeq(s, 1, n)

Drop(s, n) == SubSeq(s, n + 1, Len(s))

(***************************************************************************)
(* u64 as eight base-256 digits, most significant first                    *)
(***************************************************************************)
U64(n) ==
    <<0, 0, 0, 0, (n \div 16777216) % 256, (n \div 65536) % 256, (n \div 256) % 256, n % 256>>

RECURSIVE U64LtFrom(_, _, _)
U64LtFrom(a, b, i) ==
    IF i > 8 THEN FALSE
    ELSE IF a[i] # b[i] THEN a[i] < b[i]
    ELSE U64LtFrom(a, b, i + 1)

\* a < b, a <= b, a > b on u64
U64Lt(a, b) == U64LtFrom(a, b, 1)

U64Le(a, b) == ~U64Lt(b, a)

U64Gt(a, b) == U64Lt(b, a)

\* value >> (8 * k)
U64Shr8(v, k) == [i \in 1..8 |-> IF i <= k THEN 0 ELSE v[i - k]]

\* (value << 8) | byte : the top byte is shifted out
U64Shl8Or(v, b) == [i \in 1..8 |-> IF i = 8 THEN b ELSE v[i + 1]]

\* value & 0xFF
U64LowByte(v) == v[8]

\* `value as usize` when it is small enough to be a buffer length, else a
\* number larger than any buffer of the model
U64Fits24(v) == \A i \in 1..5 : v[i] = 0

U64ToNat(v) == IF U64Fits24(v) THEN v[6] * 65536 + v[7] * 256 + v[8] ELSE 16777216

(***************************************************************************)
(* VarInt (src/primitives/varint.rs)                                       *)
(***************************************************************************)
\* VarInt::MAX = (1 << 62) - 1
VarIntMAX == <<63, 255, 255, 255, 255, 255, 255, 255>>

VarIntZero == U64(0)

new_u64_Mutant(value) ==
    IF U64Lt(value, VarIntMAX) THEN Ok(value, <<>>)
    ELSE Err(ErrValueExceedsMaximum, <<>>)

new_u64(value) ==
    IF U64Le(value, VarIntMAX) THEN Ok(value, <<>>)
    ELSE Err(ErrValueExceedsMaximum, <<>>)

size_Mutant(v) ==
    IF U64Lt(v, U64(2^6)) THEN 1
    ELSE IF U64Lt(v, U64(2^14)) THEN 2
    ELSE IF U64Le(v, U64(2^30)) THEN 4
    ELSE 8

size(v) ==
    IF U64Lt(v, U64(2^6)) THEN 1
    ELSE IF U64Lt(v, U64(2^14)) THEN 2
    ELSE IF U64Lt(v, U64(2^30)) THEN 4
    ELSE 8

VarInt_prefix(sz) ==
    CASE sz = 1 -> 0
      [] sz = 2 -> 1
      [] sz = 4 -> 2
      [] sz = 8 -> 3

VarInt_encode(v) ==
    LET sz == size(v)
        first == AsU8(BitOr(VarInt_prefix(sz) * 64,
                            BitAnd(U64LowByte(U64Shr8(v, sz - 1)), 63)))
    IN  <<first>> \o [j \in 1..(sz - 1) |-> U64LowByte(U64Shr8(v, sz - 1 - j))]

\* the loop `for _ in 0..2^disc - 1 { val <<= 8; val |= bytes.remove(0) }`;
\* Vec::remove(0) on an empty vector panics
RECURSIVE VarInt_decode_loop(_, _, _)
VarInt_decode_loop(val, bytes, n) ==
    IF n = 0 THEN Ok(val, bytes)
    ELSE IF bytes = <<>> THEN Panic(PanicIndex)
    ELSE VarInt_decode_loop(U64Shl8Or(val, Head(bytes)), Tail(bytes), n - 1)

\* VarInt::new_u64(val) at the end of VarInt::decode, with the bytes left
VarInt_Checked(n, rest) ==
    IF n.tag = "Ok" THEN Ok(n.val, rest) ELSE Err(n.err, rest)

\* VarInt::decode after the loop
VarInt_Looped(r) ==
    IF r.tag = "Panic" THEN r ELSE VarInt_Checked(new_u64(r.val), r.rest)

\* a decoder that insists on the shortest encoding
VarInt_Shortest(r, sz) ==
    IF r.tag = "Panic" THEN r
    ELSE IF size(r.val) # sz THEN Err(ErrFrameEncoding, r.rest)
    ELSE VarInt_Checked(new_u64(r.val), r.rest)

VarInt_decode_Strict(bytes) ==
    IF bytes = <<>> THEN Ok(U64(0), <<>>)
    ELSE VarInt_Shortest(VarInt_decode_loop(U64(BitAnd(Head(bytes), 63)), Tail(bytes),
                                            2^(BitAnd(Head(bytes), 192) \div 64) - 1),
                         2^(BitAnd(Head(bytes), 192) \div 64))

\* a decoder that reads disc more bytes instead of 2^disc - 1
VarInt_decode_Mutant(bytes) ==
    IF bytes = <<>> THEN Ok(U64(0), <<>>)
    ELSE VarInt_Looped(VarInt_decode_loop(U64(BitAnd(Head(bytes), 63)), Tail(bytes),
                                          BitAnd(Head(bytes), 192) \div 64))

\* a decoder without the early return for the empty buffer: bytes[0] panics
VarInt_decode_NoEmptyCase(bytes) ==
    IF bytes = <<>> THEN Panic(PanicIndex)
    ELSE VarInt_Looped(VarInt_decode_loop(U64(BitAnd(Head(bytes), 63)), Tail(bytes),
                                          2^(BitAnd(Head(bytes), 192) \div 64) - 1))

\* VarInt::decode: disc = (first_byte & 0b11000000) >> 6, val = first_byte & 0b00111111
VarInt_decode(bytes) ==
    IF bytes = <<>> THEN Ok(U64(0), <<>>)
    ELSE VarInt_Looped(VarInt_decode_loop(U64(BitAnd(Head(bytes), 63)), Tail(bytes),
                                          2^(BitAnd(Head(bytes), 192) \div 64) - 1))

(***************************************************************************)
(* VarInt arithmetic used by the frame decoder.  add, sub, addn and gtn    *)
(* are called in src/packet/frame.rs; their bodies follow section 4.1 of   *)
(* the specification: checked, overflow above MAX fails with               *)
(* value-exceeds-maximum, sub below zero fails with frame-encoding-error.  *)
(***************************************************************************)
RECURSIVE U64AddFrom(_, _, _, _)
U64AddFrom(a, b, i, carry) ==
    IF i = 0 THEN <<>>
    ELSE LET s == a[i] + b[i] + carry
         IN  Append(U64AddFrom(a, b, i - 1, s \div 256), s % 256)

\* a + b on u64 (wrapping; the operands of the codec never wrap)
U64Add(a, b) == U64AddFrom(a, b, 8, 0)

RECURSIVE U64SubFrom(_, _, _, _)
U64SubFrom(a, b, i, borrow) ==
    IF i = 0 THEN <<>>
    ELSE LET d == a[i] - b[i] - borrow
         IN  Append(U64SubFrom(a, b, i - 1, IF d < 0 THEN 1 ELSE 0), (d + 256) % 256)

\* a - b on u64, for a >= b
U64Sub(a, b) == U64SubFrom(a, b, 8, 0)

VarInt_add(a, b) == new_u64(U64Add(a, b))

VarInt_addn(a, n) == new_u64(U64Add(a, U64(n)))

VarInt_sub(a, b) ==
    IF U64Lt(a, b) THEN Err(ErrFrameEncoding, <<>>) ELSE Ok(U64Sub(a, b), <<>>)

VarInt_gtn(a, n) == U64Gt(a, n)

(***************************************************************************)
(* Bits<N, u8> (src/bits.rs): N booleans, least significant bit first      *)
(***************************************************************************)
Bits_from(bytes, N) == [i \in 1..N |-> (bytes \div 2^(i - 1)) % 2 = 1]

RECURSIVE Bits_to_inner_from(_, _)
Bits_to_inner_from(bits, i) ==
    IF i > Len(bits) THEN 0
    ELSE (IF bits[i] THEN 2^(i - 1) ELSE 0) + Bits_to_inner_from(bits, i + 1)

Bits_to_inner(bits) == Bits_to_inner_from(bits, 1)

\* invert() is called in src/packet/header.rs and src/packet/packet.rs; its
\* body follows section 4.2 of the specification: it flips all bits
Bits_invert(bits) == [i \in 1..Len(bits) |-> ~bits[i]]

SingleBit_zero == Bits_from(0, 1)

SingleBit_one == Bits_from(1, 1)

(***************************************************************************)
(* String::from_utf8: whether a byte sequence is well-formed UTF-8         *)
(***************************************************************************)
IsCont(b) == b >= 128 /\ b <= 191

RECURSIVE IsUtf8(_)
IsUtf8(b) ==
    IF b = <<>> THEN TRUE
    ELSE LET h == b[1]
             n == Len(b)
         IN  IF h <= 127 THEN IsUtf8(Tail(b))
             ELSE IF h >= 194 /\ h <= 223
                  THEN n >= 2 /\ IsCont(b[2]) /\ IsUtf8(Drop(b, 2))
             ELSE IF h >= 224 /\ h <= 239
                  THEN /\ n >= 3
                       /\ IsCont(b[2]) /\ IsCont(b[3])
                       /\ (h = 224 => b[2] >= 160)
                       /\ (h = 237 => b[2] <= 159)
                       /\ IsUtf8(Drop(b, 3))
             ELSE IF h >= 240 /\ h <= 244
                  THEN /\ n >= 4
                       /\ IsCont(b[2]) /\ IsCont(b[3]) /\ IsCont(b[4])
                       /\ (h = 240 => b[2] >= 144)
                       /\ (h = 244 => b[2] <= 143)
                       /\ IsUtf8(Drop(b, 4))
             ELSE FALSE

(***************************************************************************)
(* Frames (src/packet/frame.rs)                                            *)
(***************************************************************************)
FrameType ==
    [ PADDING |-> 0, PING |-> 1, ACK |-> 2, ACK_ECN |-> 3, RESET_STREAM |-> 4,
      STOP_SENDING |-> 5, CRYPTO |-> 6, NEW_TOKEN |-> 7, STREAM |-> 8,
      MAX_DATA |-> 16, MAX_STREAM_DATA |-> 17, MAX_STREAMS_BIDI |-> 18,
      MAX_STREAMS_UNI |-> 19, DATA_BLOCKED |-> 20, STREAM_DATA_BLOCKED |-> 21,
      STREAMS_BLOCKED_BIDI |-> 22, STREAMS_BLOCKED_UNI |-> 23,
      NEW_CONNECTION_ID |-> 24, RETIRE_CONNECTION_ID |-> 25,
      PATH_CHALLENGE |-> 26, PATH_RESPONSE |-> 27,
      CONNECTION_CLOSE_TRANSPORT |-> 28, CONNECTION_CLOSE_APPLICATION |-> 29,
      HANDSHAKE_DONE |-> 30 ]

STREAM_FIN == 1

STREAM_LEN == 2

STREAM_OFF == 4

\* STREAM_RANGE.contains(&ty)
InStreamRange(ty) == ty >= 8 /\ ty <= 15

\* ProtocolError::is_protocol_error (src/packet/error.rs)
is_protocol_error(code) ==
    /\ U64Fits24(code)
    /\ \/ U64ToNat(code) <= 16
       \/ (U64ToNat(code) >= 256 /\ U64ToNat(code) <= 511)

ConnectionId(cid_len, cid) == [cid_len |-> cid_len, cid |-> cid]

\* Frame::ty
Frame_ty(f) ==
    CASE f.frame = "Padding" -> FrameType.PADDING
      [] f.frame = "Ping" -> FrameType.PING
      [] f.frame = "Ack" -> FrameType.ACK
      [] f.frame = "AckEcn" -> FrameType.ACK_ECN
      [] f.frame = "ResetStream" -> FrameType.RESET_STREAM
      [] f.frame = "StopSending" -> FrameType.STOP_SENDING
      [] f.frame = "Crypto" -> FrameType.CRYPTO
      [] f.frame = "NewToken" -> FrameType.NEW_TOKEN
      [] f.frame = "Stream" ->
            BitOr(BitOr(BitOr(FrameType.STREAM,
                              IF Bits_to_inner(f.fin) = 1 THEN 1 ELSE 0),
                        IF U64Gt(f.length, U64(0)) THEN 2 ELSE 0),
                  IF f.offset = U64(1) THEN 4 ELSE 0)
      [] f.frame = "MaxData" -> FrameType.MAX_DATA
      [] f.frame = "MaxStreamData" -> FrameType.MAX_STREAM_DATA
      [] f.frame = "MaxStreams" ->
            IF f.stream_type = "Bidirectional" THEN FrameType.MAX_STREAMS_BIDI
            ELSE FrameType.MAX_STREAMS_UNI
      [] f.frame = "DataBlocked" -> FrameType.DATA_BLOCKED
      [] f.frame = "StreamDataBlocked" -> FrameType.STREAM_DATA_BLOCKED
      [] f.frame = "StreamsBlocked" ->
            IF f.stream_type = "Bidirectional" THEN FrameType.STREAMS_BLOCKED_BIDI
            ELSE FrameType.STREAMS_BLOCKED_UNI
      [] f.frame = "NewConnectionId" -> FrameType.NEW_CONNECTION_ID
      [] f.frame = "RetireConnectionId" -> FrameType.RETIRE_CONNECTION_ID
      [] f.frame = "PathChallenge" -> FrameType.PATH_CHALLENGE
      [] f.frame = "PathResponse" -> FrameType.PATH_RESPONSE
      [] f.frame = "ConnectionClose" ->
            IF is_protocol_error(f.error_code) THEN FrameType.CONNECTION_CLOSE_TRANSPORT
            ELSE FrameType.CONNECTION_CLOSE_APPLICATION
      [] f.frame = "HandshakeDone" -> FrameType.HANDSHAKE_DONE

\* for (gap, len) in ack_ranges { buf.extend(gap.encode()); buf.extend(len.encode()) }
RECURSIVE EncodeAckRanges(_)
EncodeAckRanges(ranges) ==
    IF ranges = <<>> THEN <<>>
    ELSE VarInt_encode(ranges[1][1]) \o VarInt_encode(ranges[1][2])
            \o EncodeAckRanges(Tail(ranges))

\* the flags byte that Frame::encode pushes after the type byte of a Stream
StreamFlags(f) ==
    BitOr(BitOr(IF Bits_to_inner(f.fin) = 1 THEN 1 ELSE 0,
                IF U64Gt(f.length, U64(0)) THEN 2 ELSE 0),
          IF U64Gt(f.offset, U64(0)) THEN 4 ELSE 0)

\* the match arms of Frame::encode
Frame_encode_body(f) ==
    CASE f.frame \in {"Padding", "Ping", "HandshakeDone"} -> <<>>
      [] f.frame = "Ack" ->
            VarInt_encode(f.largest_acknowledged) \o VarInt_encode(f.ack_delay)
            \o VarInt_encode(f.ack_range_count) \o VarInt_encode(f.first_ack_range)
            \o EncodeAckRanges(f.ack_ranges)
      [] f.frame = "AckEcn" ->
            VarInt_encode(f.largest_acknowledged) \o VarInt_encode(f.ack_delay)
            \o VarInt_encode(f.ack_range_count) \o VarInt_encode(f.first_ack_range)
            \o EncodeAckRanges(f.ack_ranges)
            \o VarInt_encode(f.ect0_count) \o VarInt_encode(f.ect1_count)
            \o VarInt_encode(f.ecn_ce_count)
      [] f.frame = "ResetStream" ->
            VarInt_encode(f.stream_id) \o VarInt_encode(f.application_protocol_error_code)
            \o VarInt_encode(f.final_size)
      [] f.frame = "StopSending" ->
            VarInt_encode(f.stream_id) \o VarInt_encode(f.application_protocol_error_code)
      [] f.frame = "Crypto" ->
            VarInt_encode(f.offset) \o VarInt_encode(f.crypto_length) \o f.crypto_data
      [] f.frame = "NewToken" ->
            VarInt_encode(f.token_length) \o f.token
      [] f.frame = "Stream" ->
            <<StreamFlags(f)>> \o VarInt_encode(f.stream_id)
            \o (IF U64Gt(f.offset, U64(0)) THEN VarInt_encode(f.offset) ELSE <<>>)
            \o (IF U64Gt(f.length, U64(0)) THEN VarInt_encode(f.length) ELSE <<>>)
            \o f.stream_data
      [] f.frame \in {"MaxData", "DataBlocked"} -> VarInt_encode(f.maximum_data)
      [] f.frame = "MaxStreamData" ->
            VarInt_encode(f.stream_id) \o VarInt_encode(f.max_stream_data)
      [] f.frame \in {"MaxStreams", "StreamsBlocked"} -> VarInt_encode(f.max_streams)
      [] f.frame = "StreamDataBlocked" ->
            VarInt_encode(f.stream_id) \o VarInt_encode(f.stream_data_limit)
      [] f.frame = "NewConnectionId" ->
            VarInt_encode(f.sequence_number) \o VarInt_encode(f.retire_prior_to)
            \o <<f.connection_id.cid_len>> \o f.connection_id.cid
            \o f.stateless_reset_token
      [] f.frame = "RetireConnectionId" -> VarInt_encode(f.sequence_number)
      [] f.frame \in {"PathChallenge", "PathResponse"} -> f.data
      [] f.frame = "ConnectionClose" ->
            VarInt_encode(f.error_code)
            \o (IF f.frame_type # <<>> THEN <<f.frame_type[1]>> ELSE <<>>)
            \o VarInt_encode(f.reason_phrase_length) \o f.reason_phrase

\* Frame::encode: the type byte, then the fields
Frame_encode(f) == <<Frame_ty(f)>> \o Frame_encode_body(f)

\* the values read so far with one more
PushVarInt(v, rs) ==
    IF rs.tag # "Ok" THEN rs ELSE Ok(<<v>> \o rs.val, rs.rest)

\* n calls of VarInt::decode(bytes)? in a row
RECURSIVE DecodeVarInts(_, _)
RECURSIVE DecodeNext(_, _)
DecodeNext(r, n) ==
    IF r.tag # "Ok" THEN r ELSE PushVarInt(r.val, DecodeVarInts(r.rest, n - 1))

DecodeVarInts(bytes, n) ==
    IF n = 0 THEN Ok(<<>>, bytes) ELSE DecodeNext(VarInt_decode(bytes), n)

\* bytes.drain(..n).collect(): panics when n exceeds the length
Drain(bytes, n) ==
    IF n > Len(bytes) THEN Panic(PanicIndex)
    ELSE Ok(Take(bytes, n), Drop(bytes, n))

\* Vec::<(VarInt, VarInt)>::with_capacity(count): a capacity of more than
\* isize::MAX bytes (count >= 2^59 entries of 16 bytes) panics
CapacityOverflows(count) == count[1] >= 8

\* the loop over the ack ranges without the check of ack_range_length
RECURSIVE AckRangeLoop_NoLengthCheck(_, _, _, _)
AckRangeLoop_NoLengthCheck(bytes, n, next_smallest, ack_ranges) ==
    IF n = 0 THEN Ok(ack_ranges, bytes)
    ELSE LET g == DecodeVarInts(bytes, 2)
         IN  IF g.tag # "Ok" THEN g
             ELSE IF U64Gt(U64Add(g.val[1], U64(2)), next_smallest)
                  THEN Err(ErrFrameEncoding, g.rest)
             ELSE AckRangeLoop_NoLengthCheck(
                      g.rest, n - 1, U64Sub(next_smallest, U64Add(g.val[1], U64(2))),
                      Append(ack_ranges, <<g.val[1], g.val[2]>>))

\* a loop over the ack ranges that stops at the end of the buffer
RECURSIVE AckRangeLoop_UntilEmpty(_, _, _, _)
AckRangeLoop_UntilEmpty(bytes, n, next_smallest, ack_ranges) ==
    IF n = 0 \/ bytes = <<>> THEN Ok(ack_ranges, bytes)
    ELSE LET g == DecodeVarInts(bytes, 2)
         IN  IF g.tag # "Ok" THEN g
             ELSE AckRangeLoop_UntilEmpty(
                      g.rest, n - 1, U64Sub(next_smallest, U64Add(g.val[1], U64(2))),
                      Append(ack_ranges, <<g.val[1], g.val[2]>>))

\* the loop over the ack ranges of Frame::decode (ACK and ACK_ECN)
RECURSIVE AckRangeLoop(_, _, _, _)
AckRangeLoop(bytes, n, next_smallest, ack_ranges) ==
    IF n = 0 THEN Ok(ack_ranges, bytes)
    ELSE LET g == DecodeVarInts(bytes, 2)
         IN  IF g.tag # "Ok" THEN g
             ELSE LET gap == g.val[1]
                      ack_range_length == g.val[2]
                      gap2 == VarInt_addn(gap, 2)
                  IN  IF gap2.tag # "Ok" THEN Err(gap2.err, g.rest)
                      ELSE IF U64Gt(gap2.val, next_smallest)
                           THEN Err(ErrFrameEncoding, g.rest)
                      ELSE LET ns == VarInt_sub(next_smallest, gap2.val)
                           IN  IF ns.tag # "Ok" THEN Err(ns.err, g.rest)
                               ELSE IF U64Gt(ack_range_length, ns.val)
                                    THEN Err(ErrFrameEncoding, g.rest)
                               ELSE AckRangeLoop(g.rest, n - 1, ns.val,
                                                 Append(ack_ranges, <<gap, ack_range_length>>))

\* Ok(Frame::Ack { .. }) from the four leading VarInts and the ranges
AckFrame(h, ranges) ==
    [ frame |-> "Ack", largest_acknowledged |-> h[1], ack_delay |-> h[2],
      ack_range_count |-> h[3], first_ack_range |-> h[4], ack_ranges |-> ranges ]

\* Ok(Frame::AckEcn { .. })
AckEcnFrame(h, ranges, e) ==
    [ frame |-> "AckEcn", largest_acknowledged |-> h[1], ack_delay |-> h[2],
      ack_range_count |-> h[3], first_ack_range |-> h[4], ack_ranges |-> ranges,
      ect0_count |-> e[1], ect1_count |-> e[2], ecn_ce_count |-> e[3] ]

\* ACK_ECN after the three ECN counts e were read
Ack_Ecn(h, loop, e) ==
    IF e.tag # "Ok" THEN e ELSE Ok(AckEcnFrame(h.val, loop.val, e.val), e.rest)

\* ACK and ACK_ECN after the loop over the ranges
Ack_Ranges(h, loop, ecn) ==
    IF loop.tag # "Ok" THEN loop
    ELSE IF ~ecn THEN Ok(AckFrame(h.val, loop.val), loop.rest)
    ELSE Ack_Ecn(h, loop, DecodeVarInts(loop.rest, 3))

\* ACK and ACK_ECN after next_smallest = largest_acknowledged.sub(&first_ack_range)?
Ack_First(h, first, ecn) ==
    IF first.tag # "Ok" THEN Err(first.err, h.rest)
    ELSE Ack_Ranges(h, AckRangeLoop(h.rest, U64ToNat(h.val[3]), first.val, <<>>), ecn)

\* ACK and ACK_ECN after the four leading VarInts h were read
Ack_Header(h, ecn) ==
    IF h.tag # "Ok" THEN h
    ELSE IF CapacityOverflows(h.val[3]) THEN Panic(PanicCapacity)
    ELSE Ack_First(h, VarInt_sub(h.val[1], h.val[4]), ecn)

\* FrameType::ACK (ecn = FALSE) and FrameType::ACK_ECN (ecn = TRUE)
Decode_Ack(bytes, ecn) == Ack_Header(DecodeVarInts(bytes, 4), ecn)

\* 2 << 62 - 1 parses as 2 << (62 - 1) = 2^62
CryptoLimit == <<64, 0, 0, 0, 0, 0, 0, 0>>

\* FrameType::CRYPTO
Decode_Crypto(bytes) ==
    LET h == DecodeVarInts(bytes, 2)
    IN  IF h.tag # "Ok" THEN h
        ELSE LET d == Drain(h.rest, U64ToNat(h.val[2]))
                 sum == VarInt_add(h.val[1], h.val[2])
             IN  IF d.tag # "Ok" THEN d
                 ELSE IF sum.tag # "Ok" THEN Err(sum.err, d.rest)
                 ELSE IF VarInt_gtn(sum.val, CryptoLimit)
                      THEN Err(ErrCryptoBufferExceeded, d.rest)
                 ELSE Ok([ frame |-> "Crypto", offset |-> h.val[1],
                           crypto_length |-> h.val[2], crypto_data |-> d.val ], d.rest)

\* FrameType::NEW_TOKEN
Decode_NewToken(bytes) ==
    LET h == VarInt_decode(bytes)
    IN  IF h.tag # "Ok" THEN h
        ELSE LET d == Drain(h.rest, U64ToNat(h.val))
             IN  IF d.tag # "Ok" THEN d
                 ELSE Ok([frame |-> "NewToken", token_length |-> h.val, token |-> d.val],
                         d.rest)

\* ty if STREAM_RANGE.contains(&ty)
Decode_Stream(bytes) ==
    IF bytes = <<>> THEN Panic(PanicIndex)
    ELSE LET stream_ty == Head(bytes)
             id == VarInt_decode(Tail(bytes))
         IN  IF id.tag # "Ok" THEN id
             ELSE LET has_off == BitAnd(stream_ty, STREAM_OFF) # 0
                      has_len == BitAnd(stream_ty, STREAM_LEN) # 0
                      off == IF has_off THEN VarInt_decode(id.rest) ELSE Ok(VarIntZero, id.rest)
                      len == IF has_len THEN VarInt_decode(off.rest) ELSE Ok(VarIntZero, off.rest)
                      data == IF has_len THEN Drain(len.rest, U64ToNat(len.val))
                              ELSE Ok(len.rest, <<>>)
                  IN  IF off.tag # "Ok" THEN off
                      ELSE IF len.tag # "Ok" THEN len
                      ELSE IF data.tag # "Ok" THEN data
                      ELSE Ok([ frame |-> "Stream",
                                stream_id |-> id.val,
                                offset |-> off.val,
                                length |-> len.val,
                                fin |-> IF BitAnd(stream_ty, STREAM_FIN) # 0
                                        THEN SingleBit_one ELSE SingleBit_zero,
                                stream_data |-> data.val ], data.rest)

\* FrameType::NEW_CONNECTION_ID with the bound on cid_len off by one
Decode_NewConnectionId_Mutant(bytes) ==
    LET h == DecodeVarInts(bytes, 2)
    IN  IF h.tag # "Ok" THEN h
        ELSE IF h.rest = <<>> THEN Panic(PanicIndex)
        ELSE LET cid_len == Head(h.rest)
                 cid == Drain(Tail(h.rest), cid_len)
                 token == Drain(cid.rest, 16)
             IN  IF cid_len < 1 \/ cid_len >= 20
                 THEN Err(ErrFrameEncoding, Tail(h.rest))
                 ELSE IF U64Gt(h.val[2], h.val[1])
                 THEN Err(ErrFrameEncoding, Tail(h.rest))
                 ELSE IF cid.tag # "Ok" THEN cid
                 ELSE IF token.tag # "Ok" THEN token
                 ELSE Ok([ frame |-> "NewConnectionId",
                           sequence_number |-> h.val[1],
                           retire_prior_to |-> h.val[2],
                           connection_id |-> ConnectionId(cid_len, cid.val),
                           stateless_reset_token |-> token.val ], token.rest)

\* FrameType::NEW_CONNECTION_ID
Decode_NewConnectionId(bytes) ==
    LET h == DecodeVarInts(bytes, 2)
    IN  IF h.tag # "Ok" THEN h
        ELSE IF h.rest = <<>> THEN Panic(PanicIndex)
        ELSE LET cid_len == Head(h.rest)
                 cid == Drain(Tail(h.rest), cid_len)
                 token == Drain(cid.rest, 16)
             IN  IF cid_len < 1 \/ cid_len > 20
                 THEN Err(ErrFrameEncoding, Tail(h.rest))
                 ELSE IF U64Gt(h.val[2], h.val[1])
                 THEN Err(ErrFrameEncoding, Tail(h.rest))
                 ELSE IF cid.tag # "Ok" THEN cid
                 ELSE IF token.tag # "Ok" THEN token
                 ELSE Ok([ frame |-> "NewConnectionId",
                           sequence_number |-> h.val[1],
                           retire_prior_to |-> h.val[2],
                           connection_id |-> ConnectionId(cid_len, cid.val),
                           stateless_reset_token |-> token.val ], token.rest)

\* FrameType::PATH_CHALLENGE and FrameType::PATH_RESPONSE
Decode_Path(bytes, variant) ==
    LET d == Drain(bytes, 8)
    IN  IF d.tag # "Ok" THEN d
        ELSE Ok([frame |-> variant, data |-> d.val], d.rest)

\* FrameType::CONNECTION_CLOSE_TRANSPORT (transport = TRUE) and
\* FrameType::CONNECTION_CLOSE_APPLICATION (transport = FALSE)
Decode_ConnectionClose(bytes, transport) ==
    LET code == VarInt_decode(bytes)
    IN  IF code.tag # "Ok" THEN code
        ELSE IF transport /\ code.rest = <<>> THEN Panic(PanicIndex)
        ELSE LET frame_type == IF transport THEN <<Head(code.rest)>> ELSE <<>>
                 len == VarInt_decode(IF transport THEN Tail(code.rest) ELSE code.rest)
             IN  IF len.tag # "Ok" THEN len
                 ELSE LET d == Drain(len.rest, U64ToNat(len.val))
                      IN  IF d.tag # "Ok" THEN d
                          ELSE IF ~IsUtf8(d.val) THEN Panic(PanicUnwrap)
                          ELSE Ok([ frame |-> "ConnectionClose",
                                    error_code |-> code.val,
                                    frame_type |-> frame_type,
                                    reason_phrase_length |-> len.val,
                                    reason_phrase |-> d.val ], d.rest)

\* the arms of Frame::decode that read only VarInts: the variant's fields in
\* the order they are read
VarIntFields(ty) ==
    CASE ty = FrameType.RESET_STREAM ->
            <<"stream_id", "application_protocol_error_code", "final_size">>
      [] ty = FrameType.STOP_SENDING -> <<"stream_id", "application_protocol_error_code">>
      [] ty = FrameType.MAX_DATA -> <<"maximum_data">>
      [] ty = FrameType.MAX_STREAM_DATA -> <<"stream_id", "max_stream_data">>
      [] ty \in {FrameType.MAX_STREAMS_BIDI, FrameType.MAX_STREAMS_UNI,
                 FrameType.STREAMS_BLOCKED_BIDI, FrameType.STREAMS_BLOCKED_UNI} ->
            <<"max_streams">>
      [] ty = FrameType.DATA_BLOCKED -> <<"maximum_data">>
      [] ty = FrameType.STREAM_DATA_BLOCKED -> <<"stream_id", "stream_data_limit">>
      [] ty = FrameType.RETIRE_CONNECTION_ID -> <<"sequence_number">>

VarIntVariant(ty) ==
    CASE ty = FrameType.RESET_STREAM -> "ResetStream"
      [] ty = FrameType.STOP_SENDING -> "StopSending"
      [] ty = FrameType.MAX_DATA -> "MaxData"
      [] ty = FrameType.MAX_STREAM_DATA -> "MaxStreamData"
      [] ty \in {FrameType.MAX_STREAMS_BIDI, FrameType.MAX_STREAMS_UNI} -> "MaxStreams"
      [] ty = FrameType.DATA_BLOCKED -> "DataBlocked"
      [] ty = FrameType.STREAM_DATA_BLOCKED -> "StreamDataBlocked"
      [] ty \in {FrameType.STREAMS_BLOCKED_BIDI, FrameType.STREAMS_BLOCKED_UNI} ->
            "StreamsBlocked"
      [] ty = FrameType.RETIRE_CONNECTION_ID -> "RetireConnectionId"

VarIntFrameTypes ==
    { FrameType.RESET_STREAM, FrameType.STOP_SENDING, FrameType.MAX_DATA,
      FrameType.MAX_STREAM_DATA, FrameType.MAX_STREAMS_BIDI, FrameType.MAX_STREAMS_UNI,
      FrameType.DATA_BLOCKED, FrameType.STREAM_DATA_BLOCKED,
      FrameType.STREAMS_BLOCKED_BIDI, FrameType.STREAMS_BLOCKED_UNI,
      FrameType.RETIRE_CONNECTION_ID }

\* a frame of the given variant from field names and their values
FrameOf(variant, names, vals, extra) ==
    [ k \in {"frame"} \cup {names[i] : i \in 1..Len(names)} \cup DOMAIN extra |->
        IF k = "frame" THEN variant
        ELSE IF k \in DOMAIN extra THEN extra[k]
        ELSE vals[CHOOSE i \in 1..Len(names) : names[i] = k] ]

Decode_VarIntFrame(ty, bytes) ==
    LET names == VarIntFields(ty)
        h == DecodeVarInts(bytes, Len(names))
        extra == IF ty \in {FrameType.MAX_STREAMS_BIDI, FrameType.STREAMS_BLOCKED_BIDI}
                 THEN [stream_type |-> "Bidirectional"]
                 ELSE IF ty \in {FrameType.MAX_STREAMS_UNI, FrameType.STREAMS_BLOCKED_UNI}
                 THEN [stream_type |-> "Unidirectional"]
                 ELSE << >>
    IN  IF h.tag # "Ok" THEN h
        ELSE Ok(FrameOf(VarIntVariant(ty), names, h.val, extra), h.rest)

\* Frame::decode
Frame_decode(bytes) ==
    IF bytes = <<>> THEN Panic(PanicIndex)
    ELSE LET ty == Head(bytes)
             rest == Tail(bytes)
         IN  CASE ty = FrameType.PADDING -> Ok([frame |-> "Padding"], rest)
               [] ty = FrameType.PING -> Ok([frame |-> "Ping"], rest)
               [] ty = FrameType.HANDSHAKE_DONE -> Ok([frame |-> "HandshakeDone"], rest)
               [] ty = FrameType.ACK -> Decode_Ack(rest, FALSE)
               [] ty = FrameType.ACK_ECN -> Decode_Ack(rest, TRUE)
               [] ty = FrameType.CRYPTO -> Decode_Crypto(rest)
               [] ty = FrameType.NEW_TOKEN -> Decode_NewToken(rest)
               [] InStreamRange(ty) -> Decode_Stream(rest)
               [] ty \in VarIntFrameTypes -> Decode_VarIntFrame(ty, rest)
               [] ty = FrameType.NEW_CONNECTION_ID -> Decode_NewConnectionId(rest)
               [] ty = FrameType.PATH_CHALLENGE -> Decode_Path(rest, "PathChallenge")
               [] ty = FrameType.PATH_RESPONSE -> Decode_Path(rest, "PathResponse")
               [] ty = FrameType.CONNECTION_CLOSE_TRANSPORT ->
                     Decode_ConnectionClose(rest, TRUE)
               [] ty = FrameType.CONNECTION_CLOSE_APPLICATION ->
                     Decode_ConnectionClose(rest, FALSE)
               [] OTHER -> Panic(PanicUnreachable)

(***************************************************************************)
(* First-byte bit fields (src/bits.rs)                                     *)
(***************************************************************************)
\* len bits of source, least significant first
BitsOf(source, len) == [i \in 1..len |-> (source \div 2^(i - 1)) % 2 = 1]

\* decompose_bits: groups of lenvec[k] bits taken from the low end of source
RECURSIVE decompose_bits(_, _)
decompose_bits(source, lenvec) ==
    IF lenvec = <<>> THEN <<>>
    ELSE <<BitsOf(source, Head(lenvec))>>
            \o decompose_bits(source \div 2^Head(lenvec), Tail(lenvec))

\* u8::reverse_bits
RECURSIVE reverse_bits_from(_, _)
reverse_bits_from(b, i) ==
    IF i = 8 THEN 0
    ELSE ((b \div 2^i) % 2) * 2^(7 - i) + reverse_bits_from(b, i + 1)

reverse_bits(b) == reverse_bits_from(b, 0)

\* target |= (bit as u8) << (7 - i), for the eight bits of a first byte
RECURSIVE compose_target(_, _)
compose_target(bitvec, i) ==
    IF i >= Len(bitvec) THEN 0
    ELSE (IF bitvec[i + 1] THEN 2^(7 - i) ELSE 0) + compose_target(bitvec, i + 1)

\* compose_bits
compose_bits(bitvec) == reverse_bits(compose_target(bitvec, 0))

\* Vec::reverse
RECURSIVE Reverse(_)
Reverse(s) == IF s = <<>> THEN <<>> ELSE Append(Reverse(Tail(s)), Head(s))

(***************************************************************************)
(* Headers (src/packet/header.rs).  A u32 is four base-256 digits, most    *)
(* significant first.                                                      *)
(***************************************************************************)
ErrLongHeaderLen == "LongHeader length must not exceed 47 bytes"

ErrShortHeaderLen == "ShortHeader length must not exceed 33 bytes"

ErrLongHeaderRest == "LongHeader::decode: Failed to read all bytes"

ErrShortHeaderRest == "ShortHeader::decode: Failed to read all bytes"

PanicOverflow == "attempt to add with overflow"

PanicExpect == "version bytes"

\* HeaderForm::short() and HeaderForm::long()
HeaderForm == [short |-> Bits_from(0, 1), long |-> Bits_from(1, 1)]

\* LongPacketType::zero(), initial(), zero_rtt(), handshake() and retry()
LongPacketType ==
    [ zero |-> Bits_from(0, 2), initial |-> Bits_from(0, 2), zero_rtt |-> Bits_from(1, 2),
      handshake |-> Bits_from(2, 2), retry |-> Bits_from(3, 2) ]

\* u32::to_le_bytes and u32::from_le_bytes
to_le_bytes(v) == Reverse(v)

from_le_bytes(b) == Reverse(b)

\* a u8 sum: overflow panics where overflow checks are compiled in and wraps
\* where they are not
U8Sum(n, overflow_checks) ==
    IF n <= 255 THEN Ok(n, <<>>)
    ELSE IF overflow_checks THEN Panic(PanicOverflow)
    ELSE Ok(n % 256, <<>>)

\* require(len <= max, msg)?; Ok(len.into())
RequireLen(len, max, msg) ==
    IF len.tag # "Ok" THEN len
    ELSE IF len.val <= max THEN len
    ELSE Err(msg, <<>>)

\* LongHeader::len
LongHeader_len(h, overflow_checks) ==
    RequireLen(U8Sum(1 + 4 + 1 + h.dst_cid.cid_len + 1 + h.src_cid.cid_len, overflow_checks),
               47, ErrLongHeaderLen)

\* ShortHeader::len
ShortHeader_len(h, overflow_checks) ==
    RequireLen(U8Sum(1 + 1 + 1 + 2 + 1 + 2 + 1 + h.dst_cid.cid_len + 4, overflow_checks),
               33, ErrShortHeaderLen)

\* supported_versions.iter().flat_map(|v| v.to_le_bytes())
RECURSIVE EncodeVersions(_)
EncodeVersions(vs) ==
    IF vs = <<>> THEN <<>> ELSE to_le_bytes(Head(vs)) \o EncodeVersions(Tail(vs))

\* LongHeaderExtension::encode
LongHeaderExtension_encode(e) ==
    CASE e.ext = "Initial" ->
            VarInt_encode(e.token_length) \o e.token \o VarInt_encode(e.length)
            \o VarInt_encode(e.packet_number)
      [] e.ext \in {"ZeroRTT", "Handshake"} ->
            VarInt_encode(e.length) \o VarInt_encode(e.packet_number)
      [] e.ext = "Retry" -> e.retry_token \o e.retry_integrity_tag
      [] e.ext = "VersionNegotiation" -> EncodeVersions(e.supported_versions)

\* LongHeader::encode after self.len()?
LongHeader_bytes(h) ==
    <<compose_bits(h.header_form \o h.fixed_bit \o h.long_packet_type
                   \o h.type_specific_bits)>>
    \o to_le_bytes(h.version_id)
    \o <<h.dst_cid.cid_len>> \o h.dst_cid.cid
    \o <<h.src_cid.cid_len>> \o h.src_cid.cid
    \o LongHeaderExtension_encode(h.extension)

\* ShortHeader::encode after self.len()?
ShortHeader_bytes(h) ==
    <<compose_bits(h.header_form \o h.fixed_bit \o h.spin_bit \o h.reserved_bits
                   \o h.key_phase \o h.number_len)>>
    \o <<h.dst_cid.cid_len>> \o h.dst_cid.cid
    \o h.number

\* the bytes of an encoding whose length check returned len
EncodeAfterLen(len, bytes) == IF len.tag # "Ok" THEN len ELSE Ok(bytes, <<>>)

\* LongHeader::encode
LongHeader_encode(h, overflow_checks) ==
    EncodeAfterLen(LongHeader_len(h, overflow_checks), LongHeader_bytes(h))

\* ShortHeader::encode
ShortHeader_encode(h, overflow_checks) ==
    EncodeAfterLen(ShortHeader_len(h, overflow_checks), ShortHeader_bytes(h))

\* Header::encode
Header_encode(hd, overflow_checks) ==
    IF hd.variant = "Short" THEN ShortHeader_encode(hd.header, overflow_checks)
    ELSE LongHeader_encode(hd.header, overflow_checks)

\* LongHeaderExtension::decode, ty 0, after length and packet_number were read
Ext_InitialNumbers(token_length, token, n) ==
    IF n.tag # "Ok" THEN n
    ELSE Ok([ ext |-> "Initial", token_length |-> token_length, token |-> token,
              length |-> n.val[1], packet_number |-> n.val[2] ], n.rest)

\* LongHeaderExtension::decode, ty 0, after the token was drained
Ext_InitialToken(token_length, token) ==
    IF token.tag # "Ok" THEN token
    ELSE Ext_InitialNumbers(token_length, token.val, DecodeVarInts(token.rest, 2))

\* LongHeaderExtension::decode, ty 0, after token_length was read
Ext_Initial(token_length) ==
    IF token_length.tag # "Ok" THEN token_length
    ELSE Ext_InitialToken(token_length.val,
                          Drain(token_length.rest, U64ToNat(token_length.val)))

\* LongHeaderExtension::decode, ty 1 and ty 2
Ext_Numbers(ext, n) ==
    IF n.tag # "Ok" THEN n
    ELSE Ok([ext |-> ext, length |-> n.val[1], packet_number |-> n.val[2]], n.rest)

\* bytes.chunks(4).map(|v| u32::from_le_bytes(..)) on a multiple of four bytes
Chunks(bytes) ==
    [i \in 1..(Len(bytes) \div 4) |-> from_le_bytes(SubSeq(bytes, 4 * i - 3, 4 * i))]

\* LongHeaderExtension::decode; with fewer than 16 bytes, ty 3 panics in
\* bytes.len() - 16 or in the drain of the wrapped length
LongHeaderExtension_decode(bytes, ty) ==
    CASE ty = 0 -> Ext_Initial(VarInt_decode(bytes))
      [] ty = 1 -> Ext_Numbers("ZeroRTT", DecodeVarInts(bytes, 2))
      [] ty = 2 -> Ext_Numbers("Handshake", DecodeVarInts(bytes, 2))
      [] ty = 3 ->
            IF Len(bytes) < 16 THEN Panic(PanicIndex)
            ELSE Ok([ ext |-> "Retry",
                      retry_token |-> Take(bytes, Len(bytes) - 16),
                      retry_integrity_tag |-> Drop(bytes, Len(bytes) - 16) ], <<>>)
      [] ty = 4 ->
            IF Len(bytes) % 4 # 0 THEN Panic(PanicExpect)
            ELSE Ok([ext |-> "VersionNegotiation", supported_versions |-> Chunks(bytes)],
                    <<>>)
      [] OTHER -> Panic(PanicUnreachable)

\* the bit fields LongHeader::decode takes from the first byte
LongHeader_Bits(first_byte) ==
    LET bitvec == decompose_bits(first_byte, <<4, 2, 1, 1>>)
    IN  [ header_form |-> bitvec[4],
          fixed_bit |-> bitvec[3],
          long_packet_type |-> Reverse(bitvec[2]),
          type_specific_bits |-> Reverse(bitvec[1]) ]

\* let extension_ty = match long_packet_type.to_inner() { .. }
extension_ty(b) ==
    IF Bits_to_inner(b.long_packet_type) = 0
    THEN (IF Bits_to_inner(b.fixed_bit) = 0 THEN 4 ELSE 0)
    ELSE Bits_to_inner(b.long_packet_type)

\* let header_enum = match long_packet_type.to_inner() { .. }
header_enum(b) ==
    IF Bits_to_inner(b.long_packet_type) = 0
    THEN (IF Bits_to_inner(b.fixed_bit) = 0 THEN "VersionNegotiate" ELSE "Initial")
    ELSE IF Bits_to_inner(b.long_packet_type) = 3 THEN "Retry"
    ELSE "Long"

\* LongHeader::decode after the extension was decoded
LongHeader_Finish(b, version_id, dst_cid, src_cid, extension) ==
    IF extension.tag # "Ok" THEN extension
    ELSE IF extension.rest # <<>> THEN Err(ErrLongHeaderRest, extension.rest)
    ELSE Ok([ variant |-> header_enum(b),
              header |-> [ header_form |-> b.header_form,
                           fixed_bit |-> b.fixed_bit,
                           long_packet_type |-> b.long_packet_type,
                           type_specific_bits |-> b.type_specific_bits,
                           version_id |-> version_id,
                           dst_cid |-> dst_cid,
                           src_cid |-> src_cid,
                           extension |-> extension.val ] ], <<>>)

\* LongHeader::decode for a buffer that holds both connection IDs, of d and
\* s bytes
LongHeader_Fields(bytes, b, d, s) ==
    LongHeader_Finish(b, from_le_bytes(SubSeq(bytes, 2, 5)),
                      ConnectionId(d, SubSeq(bytes, 7, 6 + d)),
                      ConnectionId(s, SubSeq(bytes, 8 + d, 7 + d + s)),
                      LongHeaderExtension_decode(Drop(bytes, 7 + d + s), extension_ty(b)))

\* LongHeader::decode: remove(0) and drain(..n) panic on a buffer that ends
\* before the source connection ID does
LongHeader_decode(bytes) ==
    IF Len(bytes) < 6 THEN Panic(PanicIndex)
    ELSE IF Len(bytes) < 7 + bytes[6] THEN Panic(PanicIndex)
    ELSE IF Len(bytes) < 7 + bytes[6] + bytes[7 + bytes[6]] THEN Panic(PanicIndex)
    ELSE LongHeader_Fields(bytes, LongHeader_Bits(bytes[1]), bytes[6], bytes[7 + bytes[6]])

\* the bit fields ShortHeader::decode takes from the first byte
ShortHeader_Bits(first_byte) ==
    LET bitvec == decompose_bits(first_byte, <<2, 1, 2, 1, 1, 1>>)
    IN  [ header_form |-> bitvec[6],
          fixed_bit |-> bitvec[5],
          spin_bit |-> bitvec[4],
          reserved_bits |-> Reverse(bitvec[3]),
          key_phase |-> bitvec[2],
          number_len |-> bitvec[1] ]

\* ShortHeader::decode for a destination connection ID of d bytes and a
\* packet number of n bytes
ShortHeader_Fields(bytes, b, d, n) ==
    IF Len(bytes) < 2 + d + n THEN Panic(PanicIndex)
    ELSE IF Len(bytes) > 2 + d + n THEN Err(ErrShortHeaderRest, Drop(bytes, 2 + d + n))
    ELSE Ok([ variant |-> "Short",
              header |-> [ header_form |-> b.header_form,
                           fixed_bit |-> b.fixed_bit,
                           spin_bit |-> b.spin_bit,
                           reserved_bits |-> b.reserved_bits,
                           key_phase |-> b.key_phase,
                           number_len |-> Bits_invert(b.number_len),
                           dst_cid |-> ConnectionId(d, SubSeq(bytes, 3, 2 + d)),
                           number |-> SubSeq(bytes, 3 + d, 2 + d + n) ] ], <<>>)

\* the bytes of packet number that the decoders read for the number_len bits
NumberBytes(number_len) == Bits_to_inner(Bits_invert(number_len)) + 1

\* ShortHeader::decode
ShortHeader_decode(bytes) ==
    IF Len(bytes) < 2 THEN Panic(PanicIndex)
    ELSE IF Len(bytes) < 2 + bytes[2] THEN Panic(PanicIndex)
    ELSE ShortHeader_Fields(bytes, ShortHeader_Bits(bytes[1]), bytes[2],
                            NumberBytes(ShortHeader_Bits(bytes[1]).number_len))

\* .unwrap() of Header::decode
Unwrap(r) == IF r.tag = "Err" THEN Panic(PanicUnwrap) ELSE r

\* Header::decode
Header_decode(bytes) ==
    IF bytes = <<>> THEN Panic(PanicIndex)
    ELSE IF BitAnd(bytes[1], 128) = Bits_to_inner(HeaderForm.short)
         THEN Unwrap(ShortHeader_decode(bytes))
         ELSE Unwrap(LongHeader_decode(bytes))

(***************************************************************************)
(* Packets (src/packet/packet.rs)                                          *)
(***************************************************************************)
\* self.payload.iter().map(|frame| frame.encode()).flatten()
RECURSIVE EncodeFrames(_)
EncodeFrames(frames) ==
    IF frames = <<>> THEN <<>>
    ELSE Frame_encode(Head(frames)) \o EncodeFrames(Tail(frames))

\* Packet::encode after self.header.encode()
Packet_Payload(header, payload) ==
    IF header.tag # "Ok" THEN header
    ELSE Ok(header.val \o EncodeFrames(payload), <<>>)

\* Packet::encode
Packet_encode(p, overflow_checks) ==
    Packet_Payload(Header_encode(p.header, overflow_checks), p.payload)

\* while !bytes.is_empty() { frames.push(Frame::decode(bytes)?) }
RECURSIVE DecodeFrames(_, _)
RECURSIVE PushFrame(_, _)
PushFrame(frame, frames) ==
    IF frame.tag # "Ok" THEN frame
    ELSE DecodeFrames(frame.rest, Append(frames, frame.val))

DecodeFrames(bytes, frames) ==
    IF bytes = <<>> THEN Ok(frames, <<>>) ELSE PushFrame(Frame_decode(bytes), frames)

\* LongHeader::extension_length after length and packet_number were read
ExtLen_Numbers(n, token_bytes) ==
    IF n.tag # "Ok" THEN Unwrap(n)
    ELSE Ok(size(n.val[1]) + size(n.val[2]) + token_bytes, <<>>)

\* LongHeader::extension_length of an Initial after the token was drained
ExtLen_Token(token_length, token) ==
    IF token.tag # "Ok" THEN token
    ELSE ExtLen_Numbers(DecodeVarInts(token.rest, 2),
                        size(token_length) + U64ToNat(token_length))

\* LongHeader::extension_length of an Initial after token_length was read
ExtLen_Initial(token_length) ==
    IF token_length.tag # "Ok" THEN Unwrap(token_length)
    ELSE ExtLen_Token(token_length.val,
                      Drain(token_length.rest, U64ToNat(token_length.val)))

\* an extension_length that gives Retry and Version Negotiation no extension
ExtLen_Type_NoRest(bytes, packet_type, fixed_bit, base_header_len) ==
    IF base_header_len > Len(bytes) THEN Panic(PanicIndex)
    ELSE IF packet_type = 0 /\ fixed_bit = 1
         THEN ExtLen_Initial(VarInt_decode(Drop(bytes, base_header_len)))
    ELSE IF packet_type \in {1, 2}
         THEN ExtLen_Numbers(DecodeVarInts(Drop(bytes, base_header_len), 2), 0)
    ELSE Ok(0, <<>>)

\* LongHeader::extension_length for base_header_len within the buffer
ExtLen_Type(bytes, packet_type, fixed_bit, base_header_len) ==
    IF base_header_len > Len(bytes) THEN Panic(PanicIndex)
    ELSE IF packet_type = 0 /\ fixed_bit = 1
         THEN ExtLen_Initial(VarInt_decode(Drop(bytes, base_header_len)))
    ELSE IF packet_type \in {1, 2}
         THEN ExtLen_Numbers(DecodeVarInts(Drop(bytes, base_header_len), 2), 0)
    ELSE Ok(Len(bytes) - base_header_len, <<>>)

\* LongHeader::extension_length
extension_length(bytes) ==
    IF Len(bytes) < 6 THEN Panic(PanicIndex)
    ELSE IF Len(bytes) < 7 + bytes[6] THEN Panic(PanicIndex)
    ELSE ExtLen_Type(bytes, (bytes[1] \div 16) % 4, (bytes[1] \div 64) % 2,
                     7 + bytes[6] + bytes[7 + bytes[6]])

\* Packet::contains_frames
contains_frames(packet) == packet.header.variant \notin {"Retry", "VersionNegotiate"}

\* Ok(Self { header: decoded_header, payload: frames })
Packet_Frames(header, frames) ==
    IF header.tag # "Ok" THEN header
    ELSE IF frames.tag # "Ok" THEN frames
    ELSE Ok([header |-> header.val, payload |-> frames.val], <<>>)

\* Packet::decode_long_header after header_len and header_ext_len
Packet_Long(bytes, header_len, header_ext_len) ==
    IF header_ext_len.tag # "Ok" THEN header_ext_len
    ELSE IF header_len + header_ext_len.val > Len(bytes) THEN Panic(PanicIndex)
    ELSE Packet_Frames(LongHeader_decode(Take(bytes, header_len + header_ext_len.val)),
                       DecodeFrames(Drop(bytes, header_len + header_ext_len.val), <<>>))

\* Packet::decode_long_header
decode_long_header(bytes) ==
    IF Len(bytes) < 6 THEN Panic(PanicIndex)
    ELSE IF Len(bytes) < 7 + bytes[6] THEN Panic(PanicIndex)
    ELSE Packet_Long(bytes, 1 + 4 + 1 + bytes[6] + 1 + bytes[7 + bytes[6]],
                     extension_length(bytes))

\* Packet::decode_short_header after header_len
Packet_Short(bytes, header_len) ==
    IF header_len > Len(bytes) THEN Panic(PanicIndex)
    ELSE Packet_Frames(ShortHeader_decode(Take(bytes, header_len)),
                       DecodeFrames(Drop(bytes, header_len), <<>>))

\* Packet::decode_short_header
decode_short_header(bytes) ==
    IF Len(bytes) < 2 THEN Panic(PanicIndex)
    ELSE Packet_Short(bytes,
                      1 + 1 + bytes[2] + NumberBytes(Bits_from(BitAnd(bytes[1], 3), 2)))

\* Packet::decode
Packet_decode(bytes) ==
    IF bytes = <<>> THEN Panic(PanicIndex)
    ELSE IF BitAnd(bytes[1], 128) = Bits_to_inner(HeaderForm.short)
         THEN decode_short_header(bytes)
         ELSE decode_long_header(bytes)

(***************************************************************************)
(* Constructors of headers and packets                                     *)
(***************************************************************************)
\* LongHeader::new
LongHeader_new(long_packet_type, type_specific_bits, version_id, dst_cid, src_cid, extension) ==
    [ header_form |-> HeaderForm.long,
      fixed_bit |-> SingleBit_one,
      long_packet_type |-> long_packet_type,
      type_specific_bits |-> type_specific_bits,
      version_id |-> version_id,
      dst_cid |-> dst_cid,
      src_cid |-> src_cid,
      extension |-> extension ]

\* LongHeader::initial
LongHeader_initial(version_id, dst_cid, src_cid, type_specific_bits, token_length, token, length, packet_number) ==
    [ header_form |-> HeaderForm.long,
      fixed_bit |-> SingleBit_one,
      long_packet_type |-> LongPacketType.initial,
      type_specific_bits |-> type_specific_bits,
      version_id |-> version_id,
      dst_cid |-> dst_cid,
      src_cid |-> src_cid,
      extension |-> [ ext |-> "Initial", token_length |-> token_length, token |-> token,
                      length |-> length, packet_number |-> packet_number ] ]

\* LongHeader::version_negotiate
LongHeader_version_negotiate(dst_cid, src_cid, supported_versions) ==
    [ header_form |-> HeaderForm.long,
      fixed_bit |-> SingleBit_zero,
      long_packet_type |-> LongPacketType.zero,
      type_specific_bits |-> Bits_from(0, 4),
      version_id |-> <<0, 0, 0, 0>>,
      dst_cid |-> dst_cid,
      src_cid |-> src_cid,
      extension |-> [ext |-> "VersionNegotiation", supported_versions |-> supported_versions] ]

\* ShortHeader::new and ShortHeader::one_rtt
ShortHeader_new(spin_bit, reserved_bits, key_phase, number_len, dst_cid, number) ==
    [ header_form |-> HeaderForm.short,
      fixed_bit |-> SingleBit_one,
      spin_bit |-> spin_bit,
      reserved_bits |-> reserved_bits,
      key_phase |-> key_phase,
      number_len |-> number_len,
      dst_cid |-> dst_cid,
      number |-> number ]

\* the variants of enum Header
Header(variant, header) == [variant |-> variant, header |-> header]

(***************************************************************************)
(* Inputs of the VarInt operations                                         *)
(***************************************************************************)
\* the longest run of bytes that follows an encoded integer in a buffer
MaxTail == 1

TailBytes == {0, 171}

RECURSIVE SeqsUpTo(_, _)
SeqsUpTo(S, n) ==
    IF n = 0 THEN {<<>>}
    ELSE LET shorter == SeqsUpTo(S, n - 1)
         IN  shorter \cup {Append(s, b) : s \in {t \in shorter : Len(t) = n - 1}, b \in S}

Prefixes(s) == {Take(s, n) : n \in 0..Len(s)}

\* values a caller may hand to VarInt::new_u64: the boundaries of the four
\* encodings, the values of test_varint, and values above VarInt::MAX
VarIntSamples ==
    { U64(0), U64(1), U64(3), U64(63), U64(64), U64(16383), U64(16384),
      U64(357913941), U64(2^30 - 1), U64(2^30),
      <<21, 85, 85, 85, 85, 85, 85, 85>>,
      <<0, 0, 0, 1, 0, 0, 0, 0>>,
      VarIntMAX }

U64Samples ==
    VarIntSamples \cup { <<64, 0, 0, 0, 0, 0, 0, 0>>,
                         <<128, 0, 0, 0, 0, 0, 0, 1>>,
                         <<255, 255, 255, 255, 255, 255, 255, 255>> }

VarIntLengths == {1, 2, 4, 8}

\* v fits the 6, 14, 30 or 62 value bits of an encoding of len bytes
Fits(v, len) == (\A i \in 1..(8 - len) : v[i] = 0) /\ v[9 - len] < 64

\* the len-byte encoding of v, minimal or not (RFC 9000, section 16)
EncodeWithLen(v, len) ==
    <<VarInt_prefix(len) * 64 + v[9 - len]>> \o [j \in 1..(len - 1) |-> v[9 - len + j]]

VarIntEncodings ==
    UNION { {EncodeWithLen(v, len) : len \in {l \in VarIntLengths : Fits(v, l)}} :
              v \in VarIntSamples }

\* whole encodings followed by a tail, and every truncation of them
VarIntWires ==
    UNION { Prefixes(e \o t) : e \in VarIntEncodings, t \in SeqsUpTo(TailBytes, MaxTail) }

(***************************************************************************)
(* Inputs of the Frame operations                                          *)
(***************************************************************************)
MaxLen == 3

FieldValues == {U64(0), U64(1), U64(64), VarIntMAX}

DataValues == {<<>>, <<7>>, <<7, 195>>}

\* ack ranges that pass the checks of Frame::decode for largest - first >= 8
AckRangeValues ==
    { <<>>, << <<U64(0), U64(1)>> >>, << <<U64(0), U64(1)>>, <<U64(1), U64(2)>> >> }

AckSamples ==
    { [ frame |-> "Ack", largest_acknowledged |-> l, ack_delay |-> d,
        ack_range_count |-> U64(Len(r)), first_ack_range |-> f, ack_ranges |-> r ] :
        l \in {U64(10), U64(16384)}, d \in {U64(0), U64(64)},
        f \in {U64(0), U64(2)}, r \in AckRangeValues }

AckEcnSamples ==
    { [ frame |-> "AckEcn", largest_acknowledged |-> a.largest_acknowledged,
        ack_delay |-> a.ack_delay, ack_range_count |-> a.ack_range_count,
        first_ack_range |-> a.first_ack_range, ack_ranges |-> a.ack_ranges,
        ect0_count |-> e, ect1_count |-> U64(1), ecn_ce_count |-> e ] :
        a \in AckSamples, e \in {U64(0), U64(64)} }

StreamSamples ==
    UNION { { [ frame |-> "Stream", stream_id |-> id, offset |-> off,
                length |-> len, fin |-> fin, stream_data |-> d ] :
                id \in {U64(0), U64(64)}, off \in {U64(0), U64(1), U64(2), VarIntMAX},
                len \in {U64(0), U64(Len(d))}, fin \in {SingleBit_zero, SingleBit_one} } :
            d \in DataValues }

CidValues == { <<5>>, <<1, 2, 3, 4>>, [i \in 1..20 |-> i] }

ResetTokenValues == { [i \in 1..16 |-> 0], [i \in 1..16 |-> 16 * i - 1] }

NewConnectionIdSamples ==
    { [ frame |-> "NewConnectionId", sequence_number |-> sq, retire_prior_to |-> r,
        connection_id |-> ConnectionId(Len(c), c), stateless_reset_token |-> t ] :
        sq \in {U64(1), U64(64)}, r \in {U64(0), U64(1)}, c \in CidValues,
        t \in ResetTokenValues }

PathValues == { [i \in 1..8 |-> 0], <<1, 2, 3, 4, 5, 6, 7, 8>> }

\* "", "hi" and "hé" as UTF-8
ReasonValues == { <<>>, <<104, 105>>, <<104, 195, 169>> }

ErrorCodeValues == {U64(0), U64(16), U64(17), U64(256), U64(511), U64(512), VarIntMAX}

ConnectionCloseSamples ==
    { [ frame |-> "ConnectionClose", error_code |-> c, frame_type |-> t,
        reason_phrase_length |-> U64(Len(r)), reason_phrase |-> r ] :
        c \in ErrorCodeValues, t \in {<<>>, <<0>>, <<6>>}, r \in ReasonValues }

FrameSamples ==
    { [frame |-> "Padding"], [frame |-> "Ping"], [frame |-> "HandshakeDone"] }
    \cup AckSamples \cup AckEcnSamples
    \cup { [ frame |-> "ResetStream", stream_id |-> a,
             application_protocol_error_code |-> b, final_size |-> c ] :
             a \in FieldValues, b \in FieldValues, c \in FieldValues }
    \cup { [frame |-> "StopSending", stream_id |-> a, application_protocol_error_code |-> b] :
             a \in FieldValues, b \in FieldValues }
    \cup { [ frame |-> "Crypto", offset |-> a, crypto_length |-> U64(Len(d)),
             crypto_data |-> d ] : a \in {U64(0), U64(64)}, d \in DataValues }
    \cup { [frame |-> "NewToken", token_length |-> U64(Len(d)), token |-> d] :
             d \in DataValues }
    \cup StreamSamples
    \cup { [frame |-> v, maximum_data |-> a] :
             v \in {"MaxData", "DataBlocked"}, a \in FieldValues }
    \cup { [frame |-> "MaxStreamData", stream_id |-> a, max_stream_data |-> b] :
             a \in FieldValues, b \in FieldValues }
    \cup { [frame |-> v, stream_type |-> t, max_streams |-> a] :
             v \in {"MaxStreams", "StreamsBlocked"},
             t \in {"Bidirectional", "Unidirectional"}, a \in FieldValues }
    \cup { [frame |-> "StreamDataBlocked", stream_id |-> a, stream_data_limit |-> b] :
             a \in FieldValues, b \in FieldValues }
    \cup NewConnectionIdSamples
    \cup { [frame |-> "RetireConnectionId", sequence_number |-> a] : a \in FieldValues }
    \cup { [frame |-> v, data |-> d] :
             v \in {"PathChallenge", "PathResponse"}, d \in PathValues }
    \cup ConnectionCloseSamples

\* no frame: the run decodes a received buffer
NoFrame == [frame |-> "None"]

\* first bytes of received buffers: every frame type, and bytes that are none
FirstBytes == 0..32 \cup {64, 255}

\* the bytes after the first: small VarInts, a two-byte VarInt prefix and a
\* UTF-8 lead byte that is also an eight-byte VarInt prefix
BodyBytes == {0, 1, 2, 64, 195}

\* an ACK whose range count is 2^59
HugeAck == <<2, 0, 0, 200, 0, 0, 0, 0, 0, 0, 0, 0>>

\* the ranges an ACK on the wire carries: at most MaxRanges (gap, length) pairs
MaxRanges == 2

AckPairValues == { <<g, l>> : g \in 0..2, l \in {0, 1, 3} }

RECURSIVE FlattenPairs(_)
FlattenPairs(ps) ==
    IF ps = <<>> THEN <<>> ELSE Head(ps) \o FlattenPairs(Tail(ps))

\* complete ACK and ACK_ECN frames on the wire, every field a one-byte VarInt:
\* type, largest_acknowledged, ack_delay, ack_range_count, first_ack_range,
\* the pairs, and for ACK_ECN the three counts
AckWires ==
    { <<t, l, 0, Len(ps), f>> \o FlattenPairs(ps)
        \o (IF t = FrameType.ACK_ECN THEN <<0, 1, 0>> ELSE <<>>) :
        t \in {FrameType.ACK, FrameType.ACK_ECN}, l \in {0, 3, 5, 10}, f \in {0, 1, 4},
        ps \in SeqsUpTo(AckPairValues, MaxRanges) }

\* offsets of CRYPTO frames on the wire: 0, 64, 2^62 - 3, 2^62 - 2 and 2^62 - 1
CryptoOffsets ==
    { U64(0), U64(64), <<63, 255, 255, 255, 255, 255, 255, 253>>,
      <<63, 255, 255, 255, 255, 255, 255, 254>>, VarIntMAX }

\* a complete CRYPTO frame on the wire: type, offset, length, data
CryptoWire(offset, data) ==
    <<FrameType.CRYPTO>> \o VarInt_encode(offset) \o <<Len(data)>> \o data

CryptoWires == { CryptoWire(o, d) : o \in CryptoOffsets, d \in DataValues }

\* NEW_CONNECTION_ID fields on the wire: the lengths around the bounds 1 and 20
CidLenValues == {0, 1, 2, 20, 21, 255}

\* the connection ID bytes a frame announcing cid_len carries
CidBytes(cid_len) == [i \in 1..cid_len |-> i % 256]

\* a complete NEW_CONNECTION_ID frame on the wire: type, sequence_number,
\* retire_prior_to, cid_len, the connection ID and the stateless reset token
NewConnectionIdWire(sequence_number, retire_prior_to, cid_len, token) ==
    <<FrameType.NEW_CONNECTION_ID, sequence_number, retire_prior_to, cid_len>>
    \o CidBytes(cid_len) \o token

NewConnectionIdWires ==
    { NewConnectionIdWire(sq, r, n, t) :
        sq \in 0..2, r \in 0..2, n \in CidLenValues, t \in ResetTokenValues }

FrameWires ==
    { <<>>, HugeAck } \cup AckWires \cup CryptoWires \cup NewConnectionIdWires
    \cup { <<b>> \o t : b \in FirstBytes, t \in SeqsUpTo(BodyBytes, MaxLen) }

(***************************************************************************)
(* The Frame operations as a state machine                                 *)
(***************************************************************************)
InitFrame ==
    /\ pc = "start"
    /\ \/ input \in FrameSamples /\ wire = <<>>
       \/ input = NoFrame /\ wire \in FrameWires
    /\ output = NoResult
    /\ NoConnection

\* frame.encode()
FrameEncode ==
    /\ pc = "start"
    /\ input # NoFrame
    /\ pc' = "encoded"
    /\ wire' = Frame_encode(input)
    /\ UNCHANGED <<input, output, conn>>

\* Frame::decode(&mut frame.encode())
FrameDecodeEncoded ==
    /\ pc = "encoded"
    /\ pc' = "roundtrip"
    /\ output' = Frame_decode(wire)
    /\ UNCHANGED <<input, wire, conn>>

\* Frame::decode on a received buffer
FrameDecode ==
    /\ pc = "start"
    /\ input = NoFrame
    /\ pc' = "decoded"
    /\ output' = Frame_decode(wire)
    /\ UNCHANGED <<input, wire, conn>>

NextFrame == FrameEncode \/ FrameDecodeEncoded \/ FrameDecode

SpecFrame == InitFrame /\ [][NextFrame]_vars

(***************************************************************************)
(* Inputs of the Header operations                                         *)
(***************************************************************************)
MaxHeaderTail == 9

VersionValues == { <<0, 0, 0, 1>>, <<1, 2, 3, 4>> }

HeaderCidValues == { ConnectionId(0, <<>>), ConnectionId(8, [i \in 1..8 |-> 0]) }

FourBitsValues == { Bits_from(n, 4) : n \in {0, 3, 12, 13, 14, 15} }

HeaderTokenValues == { <<>>, <<0, 1, 0, 1, 0, 1, 0, 1>> }

NumbersExtensions ==
    { [ext |-> e, length |-> U64(4), packet_number |-> pn] :
        e \in {"ZeroRTT", "Handshake"}, pn \in {U64(8), U64(64)} }

RetryExtensions ==
    { [ext |-> "Retry", retry_token |-> t, retry_integrity_tag |-> [i \in 1..16 |-> 7]] :
        t \in HeaderTokenValues }

\* the long_packet_type that goes with an extension
TypeOfExtension(e) ==
    CASE e.ext = "ZeroRTT" -> LongPacketType.zero_rtt
      [] e.ext = "Handshake" -> LongPacketType.handshake
      [] e.ext = "Retry" -> LongPacketType.retry

InitialHeaders ==
    { LongHeader_initial(v, d, c, t, U64(Len(tok)), tok, U64(4), pn) :
        v \in VersionValues, d \in HeaderCidValues, c \in HeaderCidValues,
        t \in FourBitsValues, tok \in HeaderTokenValues, pn \in {U64(8), U64(64)} }

NumbersHeaders ==
    { LongHeader_new(TypeOfExtension(e), t, v, d, d, e) :
        e \in NumbersExtensions, t \in FourBitsValues, v \in VersionValues,
        d \in HeaderCidValues }

RetryHeaders ==
    { LongHeader_new(TypeOfExtension(e), t, v, d, d, e) :
        e \in RetryExtensions, t \in FourBitsValues, v \in VersionValues,
        d \in HeaderCidValues }

VersionNegotiateHeaders ==
    { LongHeader_version_negotiate(d, c, vs) :
        d \in HeaderCidValues, c \in HeaderCidValues,
        vs \in {<<>>, << <<0, 0, 0, 1>> >>, << <<0, 0, 0, 1>>, <<1, 2, 3, 4>> >>} }

ShortHeaders ==
    { ShortHeader_new(Bits_from(sp, 1), Bits_from(r, 2), Bits_from(k, 1), Bits_from(n, 2),
                      d, [i \in 1..(n + 1) |-> (i + 1) % 2]) :
        sp \in 0..1, r \in 0..3, k \in 0..1, n \in 0..3, d \in HeaderCidValues }

\* connection IDs around the bounds of LongHeader::len and ShortHeader::len,
\* and two whose lengths make the u8 sum of the lengths overflow
BoundaryCidValues == { ConnectionId(n, [i \in 1..n |-> 0]) : n \in {20, 21, 128, 250} }

LongBoundaryHeaders ==
    { LongHeader_new(LongPacketType.handshake, Bits_from(13, 4), <<0, 0, 0, 1>>, d, c,
                     [ext |-> "Handshake", length |-> U64(4), packet_number |-> U64(8)]) :
        d \in BoundaryCidValues, c \in BoundaryCidValues \cup HeaderCidValues }

ShortBoundaryHeaders ==
    { ShortHeader_new(SingleBit_zero, Bits_from(0, 2), SingleBit_zero, Bits_from(n, 2),
                      d, [i \in 1..(n + 1) |-> 1]) :
        n \in {0, 3}, d \in BoundaryCidValues }

HeaderSamples ==
    { Header("Initial", h) : h \in InitialHeaders }
    \cup { Header("Long", h) : h \in NumbersHeaders }
    \cup { Header("Retry", h) : h \in RetryHeaders }
    \cup { Header("VersionNegotiate", h) : h \in VersionNegotiateHeaders }
    \cup { Header("Short", h) : h \in ShortHeaders }
    \cup { Header("Long", h) : h \in LongBoundaryHeaders }
    \cup { Header("Short", h) : h \in ShortBoundaryHeaders }

\* no header: the run decodes a received buffer
NoHeader == Header("None", <<>>)

\* first bytes of received buffers: short and long forms of every type
HeaderFirstBytes == {0, 2, 67, 128, 195, 208, 224, 240}

\* received Retry headers: first byte with both type bits set, version, empty
\* connection IDs, a token of zero and of two bytes, the 16-byte integrity tag
RetryWires ==
    { <<240, 0, 0, 0, 1, 0, 0>> \o t \o [i \in 1..16 |-> 7] : t \in {<<>>, <<5, 6>>} }

\* received Version Negotiation headers: first byte with the form bit only,
\* version 0, empty connection IDs, one and two supported versions
VersionNegotiationWires ==
    { <<128, 0, 0, 0, 0, 0, 0>> \o v : v \in {<<0, 0, 0, 1>>, <<0, 0, 0, 1, 1, 2, 3, 4>>} }

HeaderWires ==
    { <<>> } \cup RetryWires \cup VersionNegotiationWires
    \cup { <<b>> \o t : b \in HeaderFirstBytes, t \in SeqsUpTo({0, 1}, MaxHeaderTail) }

(***************************************************************************)
(* The Header operations as a state machine                                *)
(***************************************************************************)
InitHeader ==
    /\ pc = "start"
    /\ \/ input \in HeaderSamples /\ wire = <<>>
       \/ input = NoHeader /\ wire \in HeaderWires
    /\ output = NoResult
    /\ NoConnection

\* header.encode()
HeaderEncode ==
    /\ pc = "start"
    /\ input # NoHeader
    /\ \E overflow_checks \in BOOLEAN :
          output' = Header_encode(input, overflow_checks)
    /\ pc' = IF output'.tag = "Ok" THEN "encoded" ELSE "failed"
    /\ wire' = IF output'.tag = "Ok" THEN output'.val ELSE wire
    /\ UNCHANGED <<input, conn>>

\* Header::decode(&mut header.encode().unwrap())
HeaderDecodeEncoded ==
    /\ pc = "encoded"
    /\ pc' = "roundtrip"
    /\ output' = Header_decode(wire)
    /\ UNCHANGED <<input, wire, conn>>

\* Header::decode on a received buffer
HeaderDecode ==
    /\ pc = "start"
    /\ input = NoHeader
    /\ pc' = "decoded"
    /\ output' = Header_decode(wire)
    /\ UNCHANGED <<input, wire, conn>>

NextHeader == HeaderEncode \/ HeaderDecodeEncoded \/ HeaderDecode

SpecHeader == InitHeader /\ [][NextHeader]_vars

(***************************************************************************)
(* Inputs of the Packet operations                                         *)
(***************************************************************************)
\* Self { header, payload } of Packet::initial, Packet::long_header and
\* Packet::short_header
Packet(header, payload) == [header |-> header, payload |-> payload]

PayloadValues ==
    { <<>>,
      << [frame |-> "Ping"], [frame |-> "Padding"], [frame |-> "Padding"],
         [frame |-> "Padding"] >>,
      << [frame |-> "Crypto", offset |-> U64(0), crypto_length |-> U64(2),
          crypto_data |-> <<7, 195>>],
         AckFrame(<<U64(10), U64(0), U64(0), U64(2)>>, <<>>) >>,
      << [frame |-> "HandshakeDone"],
         [frame |-> "MaxData", maximum_data |-> U64(16384)] >> }

PacketSamples ==
    { Packet(Header("Initial", h), pl) : h \in InitialHeaders, pl \in PayloadValues }
    \cup { Packet(Header("Long", h), pl) :
             h \in NumbersHeaders \cup RetryHeaders, pl \in PayloadValues }
    \cup { Packet(Header("Short", h), pl) : h \in ShortHeaders, pl \in PayloadValues }

\* no packet: the run decodes a received buffer
NoPacket == Packet(NoHeader, <<>>)

(***************************************************************************)
(* The Packet operations as a state machine                                *)
(***************************************************************************)
\* received packets that end in an incomplete frame: a decodable header, a
\* Ping, and a type byte followed by fewer field bytes than its layout needs
\* (RESET_STREAM without fields, RESET_STREAM with half a two-byte VarInt,
\* CRYPTO announcing two bytes with one, PATH_CHALLENGE with two bytes of eight,
\* NEW_CONNECTION_ID without its connection ID)
TruncatedFrames ==
    { <<FrameType.RESET_STREAM>>, <<FrameType.RESET_STREAM, 64>>,
      <<FrameType.CRYPTO, 0, 2, 7>>, <<FrameType.PATH_CHALLENGE, 0, 0>>,
      <<FrameType.NEW_CONNECTION_ID, 1, 0, 4>>, <<FrameType.MAX_STREAM_DATA, 1>> }

\* a long header with packet type bits 01 (empty connection IDs, length 4,
\* packet number 8) and short headers with one and with four packet number
\* bytes
ReceivedHeaders ==
    { <<208, 0, 0, 0, 1, 0, 0, 4, 8>>, <<67, 0, 1>>, <<64, 0, 0, 0, 0, 1>> }

TruncatedPacketWires ==
    { h \o p \o f : h \in ReceivedHeaders, p \in {<<>>, <<FrameType.PING>>},
                    f \in TruncatedFrames }

\* received long headers of type Initial (192), and of the two types with a
\* length and a packet number (208, 224), whose VarInt fields are encoded in
\* one byte and in two bytes (0x40 before the value), with empty connection
\* IDs, a token of zero bytes and of one byte, followed by no frame and by a Ping
TokenWires == { <<0>>, <<64, 0>>, <<1, 9>>, <<64, 1, 9>> }

LengthWires == { <<4>>, <<64, 4>> }

NumberWires == { <<8>>, <<64, 8>> }

EncodingWires ==
    { <<b, 0, 0, 0, 1, 0, 0>> \o (IF b = 192 THEN t ELSE <<>>) \o l \o n \o p :
        b \in {192, 208, 224}, t \in TokenWires, l \in LengthWires, n \in NumberWires,
        p \in {<<>>, <<FrameType.PING>>} }

PacketWires == HeaderWires \cup TruncatedPacketWires \cup EncodingWires

InitPacket ==
    /\ pc = "start"
    /\ \/ input \in PacketSamples /\ wire = <<>>
       \/ input = NoPacket /\ wire \in PacketWires
    /\ output = NoResult
    /\ NoConnection

\* packet.encode()
PacketEncode ==
    /\ pc = "start"
    /\ input # NoPacket
    /\ \E overflow_checks \in BOOLEAN :
          output' = Packet_encode(input, overflow_checks)
    /\ pc' = IF output'.tag = "Ok" THEN "encoded" ELSE "failed"
    /\ wire' = IF output'.tag = "Ok" THEN output'.val ELSE wire
    /\ UNCHANGED <<input, conn>>

\* Packet::decode(&mut packet.encode().unwrap())
PacketDecodeEncoded ==
    /\ pc = "encoded"
    /\ pc' = "roundtrip"
    /\ output' = Packet_decode(wire)
    /\ UNCHANGED <<input, wire, conn>>

\* Packet::decode on a received buffer
PacketDecode ==
    /\ pc = "start"
    /\ input = NoPacket
    /\ pc' = "decoded"
    /\ output' = Packet_decode(wire)
    /\ UNCHANGED <<input, wire, conn>>

NextPacket == PacketEncode \/ PacketDecodeEncoded \/ PacketDecode

SpecPacket == InitPacket /\ [][NextPacket]_vars

(***************************************************************************)
(* Repeated Frame::decode on one buffer, as a state machine                *)
(***************************************************************************)
\* a STREAM frame without LEN takes every remaining byte as its data
TakesRest(f) == f.frame = "Stream" /\ f.length = U64(0)

\* the frames that follow another frame in a buffer
FollowingFrames ==
    { [frame |-> "Ping"], [frame |-> "HandshakeDone"],
      [frame |-> "MaxData", maximum_data |-> U64(5)],
      [ frame |-> "Stream", stream_id |-> U64(1), offset |-> U64(0), length |-> U64(0),
        fin |-> SingleBit_one, stream_data |-> <<7, 195>> ] }

\* buffers of two frames; a frame that takes the rest is last
FrameSeqs ==
    { <<f, g>> : f \in {s \in FrameSamples : ~TakesRest(s)}, g \in FollowingFrames }

InitBuffer ==
    /\ pc = "start"
    /\ input \in FrameSeqs
    /\ wire = <<>>
    /\ output = NoResult
    /\ NoConnection

\* the concatenation of the encoded frames is received
BufferFill ==
    /\ pc = "start"
    /\ pc' = "buffer"
    /\ wire' = EncodeFrames(input)
    /\ output' = Ok(<<>>, <<>>)
    /\ UNCHANGED <<input, conn>>

\* the frames decoded so far with the result r of one more Frame::decode
BufferNext(frames, r) == IF r.tag = "Ok" THEN Ok(Append(frames, r.val), <<>>) ELSE r

\* one call of Frame::decode(&mut buffer) on a buffer that is not empty
BufferDecode ==
    /\ pc = "buffer"
    /\ wire # <<>>
    /\ output' = BufferNext(output.val, Frame_decode(wire))
    /\ wire' = Frame_decode(wire).rest
    /\ pc' = IF Frame_decode(wire).tag = "Ok" THEN "buffer" ELSE "failed"
    /\ UNCHANGED <<input, conn>>

NextBuffer == BufferFill \/ BufferDecode

SpecBuffer == InitBuffer /\ [][NextBuffer]_vars

(***************************************************************************)
(* The Connection and its worker tasks (src/connection/connection.rs)      *)
(*   state, kill  fields of the Connection; kill is <<>> for None and      *)
(*                <<c>> for Some(sender of channel c)                      *)
(*   channels     the mpsc channels made by _f: whether a Sender exists    *)
(*                and the messages buffered (capacity 1)                   *)
(*   tasks        the task spawned with channel c owns its Receiver        *)
(*   call         the method called last; pc is the caller's position,     *)
(*                output the value the call returned                       *)
(*   held         the Sender taken out of kill by a close() that waits in  *)
(*                send(()).await                                           *)
(***************************************************************************)
MaxWorkers == 3

PanicTodo == "not yet implemented"

PanicUnimplemented == "not implemented"

ErrChannelClosed == "channel closed"

\* mpsc::channel::<()>(1): one Sender, nothing buffered
NewChannel == [sender |-> TRUE, queue |-> 0]

\* the Sender of kill is dropped (the channels without it are unchanged)
DropSender(chs, k) ==
    [c \in 1..Len(chs) |-> IF <<c>> = k THEN [chs[c] EXCEPT !.sender = FALSE] ELSE chs[c]]

\* Connection::new
InitConnection ==
    /\ pc = "idle"
    /\ input = <<>>
    /\ wire = <<>>
    /\ output = Ok(<<>>, <<>>)
    /\ state = "Closed"
    /\ kill = <<>>
    /\ channels = <<>>
    /\ tasks = <<>>
    /\ call = "new"
    /\ held = <<>>

\* Connection::open: sets the state, then panics in todo!()
Open ==
    /\ pc = "idle"
    /\ call' = "open"
    /\ state' = "Handshake"
    /\ output' = Panic(PanicTodo)
    /\ UNCHANGED <<pc, input, wire, kill, channels, tasks, held>>

\* an _f that spawns the task and forgets to store the Sender
F_WithoutKill ==
    /\ pc = "idle"
    /\ Len(channels) < MaxWorkers
    /\ call' = "_f"
    /\ channels' = Append(channels, [sender |-> FALSE, queue |-> 0])
    /\ state' = "Connected"
    /\ tasks' = Append(tasks, "running")
    /\ output' = Ok(<<>>, <<>>)
    /\ UNCHANGED <<pc, input, wire, kill, held>>

\* Connection::_f: a new channel, its Sender replaces the one in kill, the
\* state becomes Connected and a task that owns the Receiver is spawned
F ==
    /\ pc = "idle"
    /\ Len(channels) < MaxWorkers
    /\ call' = "_f"
    /\ channels' = Append(DropSender(channels, kill), NewChannel)
    /\ kill' = <<Len(channels) + 1>>
    /\ state' = "Connected"
    /\ tasks' = Append(tasks, "running")
    /\ output' = Ok(<<>>, <<>>)
    /\ UNCHANGED <<pc, input, wire, held>>

\* Connection::close in state Connected up to send(()).await: the Sender is
\* taken out of kill; a send to a dropped Receiver fails and `?` returns
CloseConnected ==
    /\ state' = "Closing"
    /\ kill' = <<>>
    /\ IF kill = <<>>
       THEN /\ output' = Panic(PanicUnwrap)
            /\ UNCHANGED <<pc, channels, held>>
       ELSE IF tasks[kill[1]] = "running"
       THEN /\ channels' = [channels EXCEPT ![kill[1]].queue = 1]
            /\ held' = kill
            /\ pc' = "send"
            /\ UNCHANGED output
       ELSE /\ channels' = DropSender(channels, kill)
            /\ output' = Err(ErrChannelClosed, <<>>)
            /\ UNCHANGED <<pc, held>>

\* Connection::close up to its first await or its return
Close ==
    /\ pc = "idle"
    /\ call' = "close"
    /\ CASE state = "Connected" -> CloseConnected
         [] state = "Handshake" ->
               /\ output' = Panic(PanicUnimplemented)
               /\ UNCHANGED <<pc, state, kill, channels, held>>
         [] OTHER ->
               /\ output' = Ok(<<>>, <<>>)
               /\ UNCHANGED <<pc, state, kill, channels, held>>
    /\ UNCHANGED <<input, wire, tasks>>

\* Connection::close after send(()).await: the Sender is dropped
CloseReturn ==
    /\ pc = "send"
    /\ pc' = "idle"
    /\ state' = "Closed"
    /\ channels' = DropSender(channels, held)
    /\ held' = <<>>
    /\ output' = Ok(<<>>, <<>>)
    /\ UNCHANGED <<input, wire, kill, tasks, call>>

\* the caller drops the future of close() while it waits in send(()).await
CloseCancelled ==
    /\ pc = "send"
    /\ pc' = "idle"
    /\ channels' = DropSender(channels, held)
    /\ held' = <<>>
    /\ output' = NoResult
    /\ UNCHANGED <<input, wire, state, kill, tasks, call>>

\* the Connection is dropped, and its kill Sender with it
DropConnection ==
    /\ pc = "idle"
    /\ pc' = "dropped"
    /\ channels' = DropSender(channels, kill)
    /\ kill' = <<>>
    /\ UNCHANGED <<input, wire, output, state, tasks, call, held>>

\* unsub_rx.recv() returns: a message, or None when the channel is empty and
\* every Sender is gone
RecvReady(ch) == ch.queue > 0 \/ ~ch.sender

\* a worker whose recv() returns only for a message
Worker_MessageOnly(w) ==
    /\ tasks[w] = "running"
    /\ channels[w].queue > 0
    /\ tasks' = [tasks EXCEPT ![w] = "done"]
    /\ channels' = [channels EXCEPT ![w].queue = 0]
    /\ UNCHANGED <<pc, input, wire, output, state, kill, call, held>>

\* the spawned task: select! on unsub_rx.recv() ends the loop, the task
\* returns and drops the Receiver
Worker(w) ==
    /\ tasks[w] = "running"
    /\ RecvReady(channels[w])
    /\ tasks' = [tasks EXCEPT ![w] = "done"]
    /\ channels' = [channels EXCEPT ![w].queue = 0]
    /\ UNCHANGED <<pc, input, wire, output, state, kill, call, held>>

NextConnection ==
    \/ Open
    \/ F
    \/ Close
    \/ CloseReturn
    \/ CloseCancelled
    \/ DropConnection
    \/ \E w \in 1..Len(tasks) : Worker(w)

SpecConnection == InitConnection /\ [][NextConnection]_vars

\* the runtime polls a task that was woken: a worker whose recv() can return
\* runs
SpecConnectionFair ==
    SpecConnection /\ \A w \in 1..MaxWorkers : WF_vars(w <= Len(tasks) /\ Worker(w))

(***************************************************************************)
(* The VarInt operations as a state machine                                *)
(***************************************************************************)
InitVarInt ==
    /\ pc = "start"
    /\ input \in U64Samples
    /\ wire \in VarIntWires
    /\ output = NoResult
    /\ NoConnection

VarIntNew ==
    /\ pc = "start"
    /\ pc' = "new_u64"
    /\ output' = new_u64(input)
    /\ UNCHANGED <<input, wire, conn>>

VarIntEncode ==
    /\ pc = "new_u64"
    /\ output.tag = "Ok"
    /\ pc' = "encoded"
    /\ wire' = VarInt_encode(output.val)
    /\ UNCHANGED <<input, output, conn>>

VarIntDecodeEncoded ==
    /\ pc = "encoded"
    /\ pc' = "roundtrip"
    /\ output' = VarInt_decode(wire)
    /\ UNCHANGED <<input, wire, conn>>

VarIntDecode ==
    /\ pc = "start"
    /\ pc' = "decoded"
    /\ output' = VarInt_decode(wire)
    /\ UNCHANGED <<input, wire, conn>>

NextVarInt == VarIntNew \/ VarIntEncode \/ VarIntDecodeEncoded \/ VarIntDecode

SpecVarInt == InitVarInt /\ [][NextVarInt]_vars

(***************************************************************************)
(* Claims about VarInt                                                     *)
(***************************************************************************)
\* C1: for every value v in [0, 2^62-1], VarInt::decode applied to the bytes
\* of VarInt::encode(v) returns v and leaves the buffer empty.
C1_VarIntRoundTrip ==
    pc = "roundtrip" => output = Ok(input, <<>>)

C1_Witness ==
    /\ pc = "roundtrip"
    /\ input = VarIntMAX
    /\ Len(wire) = 8
    /\ output.tag = "Ok"

\* the value bits of an encoding: the prefix bits cleared, padded to a u64
ValueBits(w) ==
    [i \in 1..8 |->
        IF i < 9 - Len(w) THEN 0
        ELSE IF i = 9 - Len(w) THEN w[1] % 64
        ELSE w[i - (8 - Len(w))]]

\* C2: encode(v) has exactly size(v) bytes, size(v) is the smallest of 1, 2,
\* 4, 8 whose 6/14/30/62 value bits hold v, the top two bits of byte 0 are
\* 00/01/10/11 for lengths 1/2/4/8 and the remaining bits hold v big-endian
\* (63 -> [0x3F], 64 -> [0x40,0x40], 16383 -> [0x7F,0xFF],
\* 16384 -> [0x80,0x00,0x40,0x00]).
C2_EncodeMinimal ==
    pc = "encoded" =>
        /\ Len(wire) = size(input)
        /\ Len(wire) \in VarIntLengths
        /\ Fits(input, Len(wire))
        /\ \A len \in VarIntLengths : Fits(input, len) => Len(wire) <= len
        /\ wire[1] \div 64 = VarInt_prefix(Len(wire))
        /\ \A i \in 1..Len(wire) : wire[i] \in Byte
        /\ ValueBits(wire) = input
        /\ (input = U64(63) => wire = <<63>>)
        /\ (input = U64(64) => wire = <<64, 64>>)
        /\ (input = U64(16383) => wire = <<127, 255>>)
        /\ (input = U64(16384) => wire = <<128, 0, 64, 0>>)

C2_Witness ==
    /\ pc = "encoded"
    /\ input = U64(16384)
    /\ wire = <<128, 0, 64, 0>>

\* C3: VarInt::new_u64(value) returns the value-exceeds-maximum error for
\* every value > 2^62-1 and a VarInt holding exactly value otherwise.
C3_NewU64Bound ==
    pc = "new_u64" =>
        IF input[1] >= 64
        THEN output.tag = "Err" /\ output.err = ErrValueExceedsMaximum
        ELSE output.tag = "Ok" /\ output.val = input

C3_Witness ==
    /\ pc = "new_u64"
    /\ input = <<64, 0, 0, 0, 0, 0, 0, 0>>
    /\ output.tag = "Err"

\* the number of bytes the prefix of the first byte announces
AnnouncedLen(w) == 2^(w[1] \div 64)

\* C4: VarInt::decode on a non-empty buffer whose first byte announces more
\* bytes than the buffer holds returns an error value (truncated) rather
\* than succeeding or aborting.
C4_TruncatedIsError ==
    (pc = "decoded" /\ wire # <<>> /\ AnnouncedLen(wire) > Len(wire)) =>
        output.tag = "Err"

\* C5: VarInt::decode accepts non-minimal encodings: for every v and every
\* length L in {1,2,4,8} whose value bits hold v, decoding the L-byte
\* encoding of v returns v and consumes exactly L bytes.
C5_NonMinimalDecode ==
    pc = "decoded" =>
        \A v \in VarIntSamples : \A len \in VarIntLengths :
            (Fits(v, len) /\ Len(wire) >= len /\ Take(wire, len) = EncodeWithLen(v, len)) =>
                output = Ok(v, Drop(wire, len))

C5_Witness ==
    /\ pc = "decoded"
    /\ wire = <<64, 3, 171>>
    /\ output = Ok(U64(3), <<171>>)

(***************************************************************************)
(* Claims about Frame                                                      *)
(***************************************************************************)
\* C6: for every Frame value f of each of the 28 variants, Frame::decode
\* applied to Frame::encode(f) returns a frame equal to f.
C6_FrameRoundTrip ==
    pc = "roundtrip" /\ input # NoFrame =>
        output.tag = "Ok" /\ output.val = input

\* the round trips that do return the frame
C6_RoundTripOk ==
    /\ pc = "roundtrip"
    /\ input # NoFrame
    /\ output = Ok(input, <<>>)

\* C9: for every input byte sequence (empty, truncated and malformed ones
\* included), VarInt::decode, Frame::decode and Packet::decode return either
\* a decoded value or an error value; no input makes them panic.
C9_DecodeNeverPanics ==
    pc = "decoded" => output.tag \in {"Ok", "Err"}

\* C10: Frame::decode on a buffer whose first byte is not one of the defined
\* frame types 0x00-0x1E returns a frame-encoding-error.
C10_UnknownFrameType ==
    (pc = "decoded" /\ input = NoFrame /\ wire # <<>> /\ wire[1] > FrameType.HANDSHAKE_DONE) =>
        output.tag = "Err" /\ output.err = ErrFrameEncoding

(***************************************************************************)
(* Claims about Header and Packet                                          *)
(***************************************************************************)
\* C7: for every header h of the five long-header sub-forms built by the
\* LongHeader constructors and for every ShortHeader, Header::decode applied
\* to h.encode() returns a Header equal to h.
C7_HeaderRoundTrip ==
    (pc = "roundtrip" /\ input \in HeaderSamples) =>
        output.tag = "Ok" /\ output.val = input

\* C8: for every Packet p built by Packet::initial, Packet::long_header or
\* Packet::short_header with any list of payload frames, Packet::decode
\* applied to p.encode() returns a Packet equal to p and leaves the buffer
\* empty.
C8_PacketRoundTrip ==
    (pc = "roundtrip" /\ input \in PacketSamples) =>
        output = Ok(input, <<>>)

(***************************************************************************)
(* Claims about the checks of Frame::decode                                *)
(***************************************************************************)
\* the (gap, length) pairs of a wire in AckWires
AckWirePairs(w) == [i \in 1..w[4] |-> <<w[4 + 2 * i], w[5 + 2 * i]>>]

\* the checks as the specification states them, on natural numbers: TRUE
\* when every pair passes
RECURSIVE AckChecksPass(_, _)
AckChecksPass(next_smallest, ps) ==
    IF ps = <<>> THEN TRUE
    ELSE LET gap == Head(ps)[1]
             length == Head(ps)[2]
         IN  /\ gap + 2 <= next_smallest
             /\ length <= next_smallest - (gap + 2)
             /\ AckChecksPass(next_smallest - (gap + 2), Tail(ps))

C11_Accepted ==
    /\ pc = "decoded"
    /\ wire = <<2, 10, 0, 2, 0, 0, 3, 1, 1>>
    /\ output.tag = "Ok"

\* the packet numbers of the ranges as the ACK frame defines them: each
\* range's largest is the previous range's smallest - gap - 2 and its
\* smallest is its largest - length; TRUE when none is negative
RECURSIVE RangesNonNegative(_, _)
RangesNonNegative(previous_smallest, ps) ==
    IF ps = <<>> THEN TRUE
    ELSE LET largest == previous_smallest - Head(ps)[1] - 2
             smallest == largest - Head(ps)[2]
         IN  /\ largest >= 0
             /\ smallest >= 0
             /\ RangesNonNegative(smallest, Tail(ps))

\* C12: every ACK / ACK_ECN frame that Frame::decode accepts has, for every
\* one of its ranges (the first range and each following gap/length range),
\* a computed largest and smallest packet number that is >= 0; a frame in
\* which any such number would be negative is rejected.
C12_AckRangesNonNegative ==
    (pc = "decoded" /\ wire \in AckWires /\ output.tag = "Ok") =>
        /\ wire[2] - wire[5] >= 0
        /\ RangesNonNegative(wire[2] - wire[5], AckWirePairs(wire))

\* C13: Frame::decode of a CRYPTO frame whose offset + length is greater
\* than 2^62-1 returns the crypto-buffer-exceeded error, and a CRYPTO frame
\* with offset + length <= 2^62-1 and enough data bytes decodes successfully.
C13_CryptoBufferExceeded ==
    \A o \in CryptoOffsets, d \in DataValues :
        (pc = "decoded" /\ wire = CryptoWire(o, d)) =>
            IF U64Gt(U64Add(o, U64(Len(d))), VarIntMAX)
            THEN output.tag = "Err" /\ output.err = ErrCryptoBufferExceeded
            ELSE /\ output.tag = "Ok"
                 /\ output.val = [ frame |-> "Crypto", offset |-> o,
                                   crypto_length |-> U64(Len(d)), crypto_data |-> d ]

\* C14: Frame::decode of a NEW_CONNECTION_ID frame returns
\* frame-encoding-error when cid_len is 0 or greater than 20 or when
\* retire_prior_to > sequence_number, and otherwise returns a frame whose
\* connection ID has exactly cid_len bytes followed by the 16-byte stateless
\* reset token.
C14_NewConnectionIdChecks ==
    \A sq \in 0..2, r \in 0..2, n \in CidLenValues, t \in ResetTokenValues :
        (pc = "decoded" /\ wire = NewConnectionIdWire(sq, r, n, t)) =>
            IF n = 0 \/ n > 20 \/ r > sq
            THEN output.tag = "Err" /\ output.err = ErrFrameEncoding
            ELSE output =
                    Ok([ frame |-> "NewConnectionId", sequence_number |-> U64(sq),
                         retire_prior_to |-> U64(r),
                         connection_id |-> ConnectionId(n, CidBytes(n)),
                         stateless_reset_token |-> t ], <<>>)

\* a frame with the longest connection ID allowed is accepted
C14_Witness ==
    /\ pc = "decoded"
    /\ wire = NewConnectionIdWire(2, 1, 20, [i \in 1..16 |-> 16 * i - 1])
    /\ output.tag = "Ok"
    /\ Len(output.val.connection_id.cid) = 20
    /\ Len(output.val.stateless_reset_token) = 16

(***************************************************************************)
(* Claims about the lengths and the first byte of encoded headers          *)
(***************************************************************************)
\* C15: LongHeader::encode returns a length-bound error whenever the long
\* header it would produce is longer than 47 bytes, for every pair of
\* connection-ID lengths in 0-255 and every extension; it never returns a
\* byte sequence longer than 47 bytes.
C15_LongHeaderLengthBound ==
    (pc \in {"encoded", "failed"} /\ input.variant \notin {"Short", "None"}) =>
        /\ Len(LongHeader_bytes(input.header)) > 47 =>
              output.tag = "Err" /\ output.err = ErrLongHeaderLen
        /\ output.tag = "Ok" => Len(output.val) <= 47

\* C16: ShortHeader::encode returns a length-bound error whenever the short
\* header it would produce is longer than 33 bytes and succeeds whenever it
\* is 33 bytes or shorter; it never returns a byte sequence longer than 33
\* bytes.
C16_ShortHeaderLengthBound ==
    (pc \in {"encoded", "failed"} /\ input.variant = "Short") =>
        /\ Len(ShortHeader_bytes(input.header)) > 33 =>
              output.tag = "Err" /\ output.err = ErrShortHeaderLen
        /\ Len(ShortHeader_bytes(input.header)) <= 33 => output.tag = "Ok"
        /\ output.tag = "Ok" => Len(output.val) <= 33

\* C17: the first byte written by LongHeader::encode carries, MSB-first in
\* declaration order, the header-form bit (1) in bit 7, the fixed bit in
\* bit 6, the 2-bit long-packet-type in bits 5-4 and the 4 type-specific
\* bits in bits 3-0; the first byte written by ShortHeader::encode has
\* bit 7 = 0; so the decoders, which take bit 7 = 0 for short and bit 7 = 1
\* for long, dispatch every encoded header to the decoder of its form.
C17_FirstByteMsbFirst ==
    (pc = "encoded" /\ input.variant # "None") =>
        IF input.variant = "Short"
        THEN BitAnd(wire[1], 128) = 0
        ELSE /\ wire[1] = 128 * Bits_to_inner(input.header.header_form)
                          + 64 * Bits_to_inner(input.header.fixed_bit)
                          + 16 * Bits_to_inner(input.header.long_packet_type)
                          + Bits_to_inner(input.header.type_specific_bits)
             /\ BitAnd(wire[1], 128) = 128

(***************************************************************************)
(* Claims about the layout of encoded frames                               *)
(***************************************************************************)
\* the layout of a Stream frame as the specification states it: the type
\* byte ty, stream_id, the offset if OFF is set in ty, the length if LEN is
\* set in ty, the data
StreamLayout(ty, f) ==
    <<ty>> \o VarInt_encode(f.stream_id)
    \o (IF BitAnd(ty, STREAM_OFF) # 0 THEN VarInt_encode(f.offset) ELSE <<>>)
    \o (IF BitAnd(ty, STREAM_LEN) # 0 THEN VarInt_encode(f.length) ELSE <<>>)
    \o f.stream_data

\* a Stream frame with a length and one byte of data
StreamOfOneByte(id, b) ==
    [ frame |-> "Stream", stream_id |-> U64(id), offset |-> U64(0), length |-> U64(1),
      fin |-> SingleBit_zero, stream_data |-> <<b>> ]

\* C18: Frame::encode of a Stream frame writes one type byte in 0x08-0x0F
\* followed immediately by the stream_id VarInt, then the offset VarInt if
\* present, then the length VarInt if present, then the data; no additional
\* byte sits between the type byte and stream_id, and Frame::decode reads
\* exactly this layout.
C18_StreamLayout ==
    /\ (pc = "encoded" /\ input.frame = "Stream") =>
          /\ InStreamRange(wire[1])
          /\ wire = StreamLayout(wire[1], input)
    /\ \A id \in {0, 1}, b \in BodyBytes :
          (pc = "decoded" /\ wire = StreamLayout(FrameType.STREAM + STREAM_LEN,
                                                 StreamOfOneByte(id, b))) =>
              output = Ok(StreamOfOneByte(id, b), <<>>)

\* C19: Frame::encode of a ConnectionClose frame writes type byte 0x1C
\* exactly when the frame-type field is present (and then writes error_code,
\* the 1-byte frame type, reason length, reason bytes), and type byte 0x1D
\* exactly when the frame-type field is absent (error_code, reason length,
\* reason bytes); so the type byte always agrees with whether the frame-type
\* byte is on the wire.
C19_ConnectionCloseTypeByte ==
    (pc = "encoded" /\ input.frame = "ConnectionClose") =>
        IF input.frame_type # <<>>
        THEN wire = <<FrameType.CONNECTION_CLOSE_TRANSPORT>> \o VarInt_encode(input.error_code)
                    \o input.frame_type \o VarInt_encode(input.reason_phrase_length)
                    \o input.reason_phrase
        ELSE wire = <<FrameType.CONNECTION_CLOSE_APPLICATION>>
                    \o VarInt_encode(input.error_code)
                    \o VarInt_encode(input.reason_phrase_length) \o input.reason_phrase

(***************************************************************************)
(* Claims about the payload of a packet                                    *)
(***************************************************************************)
\* C20: Packet::decode decodes frames from the payload until the payload
\* buffer is empty, and when the bytes left in the payload do not form a
\* complete frame (a type byte followed by fewer field bytes than its layout
\* requires) it returns frame-encoding-error instead of returning a packet.
C20_TruncatedPayload ==
    (pc = "decoded" /\ wire \in TruncatedPacketWires) =>
        output.tag = "Err" /\ output.err = ErrFrameEncoding

(***************************************************************************)
(* Claims about the decoding of headers                                    *)
(***************************************************************************)
\* the long packet type and the fixed bit as the first byte carries them:
\* (byte & 0b0011_0000) >> 4 and (byte & 0b0100_0000) >> 6
WireLpt(byte) == (byte \div 16) % 4

WireFixed(byte) == (byte \div 64) % 2

\* C21: LongHeader::decode selects the extension and the Header variant from
\* the first byte only: lpt=0 with fixed=0 gives a Version-Negotiate
\* extension and Header::VersionNegotiate; lpt=0 with fixed=1 gives an
\* Initial extension and Header::Initial; lpt=1 gives a 0-RTT extension and
\* lpt=2 a Handshake extension, both as Header::Long; lpt=3 gives a Retry
\* extension and Header::Retry.
C21_ExtensionByFirstByte ==
    (pc = "decoded" /\ wire # <<>> /\ wire[1] >= 128 /\ output.tag = "Ok") =>
        /\ output.val.variant =
              CASE WireLpt(wire[1]) = 0 /\ WireFixed(wire[1]) = 0 -> "VersionNegotiate"
                [] WireLpt(wire[1]) = 0 /\ WireFixed(wire[1]) = 1 -> "Initial"
                [] WireLpt(wire[1]) \in {1, 2} -> "Long"
                [] WireLpt(wire[1]) = 3 -> "Retry"
        /\ output.val.header.extension.ext =
              CASE WireLpt(wire[1]) = 0 /\ WireFixed(wire[1]) = 0 -> "VersionNegotiation"
                [] WireLpt(wire[1]) = 0 /\ WireFixed(wire[1]) = 1 -> "Initial"
                [] WireLpt(wire[1]) = 1 -> "ZeroRTT"
                [] WireLpt(wire[1]) = 2 -> "Handshake"
                [] WireLpt(wire[1]) = 3 -> "Retry"

\* C22: ShortHeader::decode takes pn_len as the numeric value of the low two
\* bits of byte 0 and reads exactly pn_len + 1 packet-number bytes after the
\* destination connection ID, for every pn_len in 0..3.
C22_PacketNumberBytes ==
    (pc = "decoded" /\ wire # <<>> /\ wire[1] < 128 /\ output.tag = "Ok") =>
        Len(output.val.header.number) = BitAnd(wire[1], 3) + 1

\* C23: the type byte that Frame::encode writes for a Stream frame is 0x08
\* with FIN (0x01) set iff fin is set, LEN (0x02) set iff the length field is
\* written and OFF (0x04) set iff the offset field is written; in particular
\* the OFF bit is set for every non-zero offset.
C23_StreamTypeByte ==
    (pc = "encoded" /\ input.frame = "Stream") =>
        wire[1] = FrameType.STREAM
                  + (IF Bits_to_inner(input.fin) = 1 THEN STREAM_FIN ELSE 0)
                  + (IF U64Gt(input.length, U64(0)) THEN STREAM_LEN ELSE 0)
                  + (IF U64Gt(input.offset, U64(0)) THEN STREAM_OFF ELSE 0)

(***************************************************************************)
(* Claims about repeated decoding                                          *)
(***************************************************************************)
\* C24: Frame::decode removes from the front of the buffer exactly the bytes
\* of one frame and leaves all following bytes unchanged and in order, so
\* repeated decoding of a concatenation of encoded frames yields those
\* frames in order and ends with an empty buffer; the only exception is a
\* STREAM frame without LEN, which takes every remaining byte as stream data
\* and therefore must be the last frame.
C24_FramesInOrder ==
    pc \in {"buffer", "failed"} =>
        /\ output.tag = "Ok"
        /\ output.val = Take(input, Len(output.val))
        /\ wire = EncodeFrames(Drop(input, Len(output.val)))

\* the bytes are whole VarInts of one or two bytes, nothing cut
RECURSIVE WholeVarInts(_)
WholeVarInts(bytes) ==
    IF bytes = <<>> THEN TRUE
    ELSE IF Head(bytes) < 64 THEN WholeVarInts(Tail(bytes))
    ELSE Head(bytes) < 128 /\ Len(bytes) >= 2 /\ WholeVarInts(Drop(bytes, 2))

\* the values of whole one-byte and two-byte VarInts, in wire order
RECURSIVE WireValues(_)
WireValues(bytes) ==
    IF bytes = <<>> THEN <<>>
    ELSE IF Head(bytes) < 64 THEN <<U64(Head(bytes))>> \o WireValues(Tail(bytes))
    ELSE <<U64((Head(bytes) - 64) * 256 + bytes[2])>> \o WireValues(Drop(bytes, 2))

\* the i-th field: the i-th value on the wire, 0 when the wire ended before it
FieldOrZero(vals, i) == IF i <= Len(vals) THEN vals[i] ELSE U64(0)

VarIntWireLen(bytes) == 2^(Head(bytes) \div 64)

\* the buffer starts with n whole VarInts
RECURSIVE WholeNumbers(_, _)
WholeNumbers(bytes, n) ==
    IF n = 0 THEN TRUE
    ELSE /\ bytes # <<>>
         /\ VarIntWireLen(bytes) <= Len(bytes)
         /\ WholeNumbers(Drop(bytes, VarIntWireLen(bytes)), n - 1)

\* a whole token length, the token bytes it announces, and two whole VarInts
WholeInitial(bytes) ==
    /\ WholeNumbers(bytes, 1)
    /\ U64ToNat(VarInt_decode(bytes).val) <= Len(VarInt_decode(bytes).rest)
    /\ WholeNumbers(Drop(VarInt_decode(bytes).rest, U64ToNat(VarInt_decode(bytes).val)), 2)

\* the buffer holds both connection IDs of a long header
HoldsConnectionIds(bytes) ==
    /\ Len(bytes) >= 6
    /\ Len(bytes) >= 7 + bytes[6]
    /\ Len(bytes) >= 7 + bytes[6] + bytes[7 + bytes[6]]

\* the bytes after the source connection ID
AfterConnectionIds(bytes) == Drop(bytes, 7 + bytes[6] + bytes[7 + bytes[6]])

\* a long header of type Initial, 0-RTT or Handshake whose extension fields
\* are all on the wire
WellFormedLong(bytes) ==
    /\ HoldsConnectionIds(bytes)
    /\ bytes[1] >= 128
    /\ \/ WireLpt(bytes[1]) \in {1, 2} /\ WholeNumbers(AfterConnectionIds(bytes), 2)
       \/ /\ WireLpt(bytes[1]) = 0
          /\ WireFixed(bytes[1]) = 1
          /\ WholeInitial(AfterConnectionIds(bytes))

\* the bytes LongHeaderExtension::decode removes from the buffer
ExtensionConsumed(bytes) ==
    Len(AfterConnectionIds(bytes))
        - Len(LongHeaderExtension_decode(AfterConnectionIds(bytes),
                                         extension_ty(LongHeader_Bits(bytes[1]))).rest)

\* C26: for every received long header of type Initial, 0-RTT or Handshake
\* whose fields are all on the wire, in minimal or non-minimal VarInt
\* encoding, LongHeader::extension_length returns the number of bytes that
\* LongHeaderExtension::decode consumes.
C26_ExtensionLengthIsConsumed ==
    (pc = "decoded" /\ WellFormedLong(wire)) =>
        extension_length(wire) = Ok(ExtensionConsumed(wire), <<>>)

\* C27: every packet that Packet::decode returns with a Retry or a Version
\* Negotiation header has an empty payload: contains_frames() is false only
\* for decoded packets that carry no frames.
C27_NoFramesWithoutContainsFrames ==
    (pc \in {"decoded", "roundtrip"} /\ output.tag = "Ok" /\ ~contains_frames(output.val)) =>
        output.val.payload = <<>>

\* a received Retry packet with a token of two bytes: the bytes after the
\* connection IDs are the token and the integrity tag, not frames
C27_Witness ==
    /\ pc = "decoded"
    /\ wire = <<240, 0, 0, 0, 1, 0, 0, 5, 6>> \o [i \in 1..16 |-> 7]
    /\ output.tag = "Ok"
    /\ output.val.header.variant = "Retry"
    /\ output.val.header.header.extension.retry_token = <<5, 6>>
    /\ ~contains_frames(output.val)
    /\ output.val.payload = <<>>


\* C28: every Ack or AckEcn frame returned by Frame::decode has as many
\* (gap, length) entries in ack_ranges as its ack_range_count field says.
C28_AckRangeCount ==
    (pc \in {"decoded", "roundtrip"} /\ output.tag = "Ok"
        /\ output.val.frame \in {"Ack", "AckEcn"}) =>
        output.val.ack_range_count = U64(Len(output.val.ack_ranges))

\* a received ACK_ECN frame with two ranges
C28_Witness ==
    /\ pc = "decoded"
    /\ output.tag = "Ok"
    /\ output.val.frame = "AckEcn"
    /\ output.val.ack_range_count = U64(2)
    /\ Len(output.val.ack_ranges) = 2


(***************************************************************************)
(* Claims about the Connection                                             *)
(***************************************************************************)
\* C29: in every reachable state of a Connection, state = Connected implies
\* that kill holds a Sender; close() called in state Connected sets the
\* state to Closing and empties kill, and when it returns from the send the
\* state is Closed and kill is still empty; close() called in state Closed
\* or Closing changes nothing and returns Ok.
C29_CloseLifecycle ==
    /\ []((pc # "dropped" /\ state = "Connected") => kill # <<>>)
    /\ [][(Close /\ state = "Connected") => (state' = "Closing" /\ kill' = <<>>)]_vars
    /\ [][CloseReturn =>
            (state = "Closing" /\ state' = "Closed" /\ kill' = <<>>
                /\ output' = Ok(<<>>, <<>>))]_vars
    /\ [][(Close /\ state \in {"Closed", "Closing"}) =>
            (UNCHANGED <<pc, state, kill, channels, tasks, held>>
                /\ output' = Ok(<<>>, <<>>))]_vars

\* close() was called on a connected Connection and has returned
C29_Witness ==
    /\ pc = "idle"
    /\ call = "close"
    /\ output = Ok(<<>>, <<>>)
    /\ state = "Closed"
    /\ kill = <<>>
    /\ Len(tasks) = 1
    /\ channels[1].sender = FALSE

\* the kill channel of worker w was sent on, or its Sender was dropped or
\* replaced
Signalled(w) == channels[w].queue > 0 \/ ~channels[w].sender

\* C30: every worker task spawned by _f eventually leaves its loop and
\* terminates once close() has sent on its kill channel or the kill Sender
\* was dropped or replaced by a later _f; a worker that runs when the
\* Connection is Closed terminates.
C30_WorkersTerminate ==
    \A w \in 1..MaxWorkers :
        (/\ w <= Len(tasks)
         /\ tasks[w] = "running"
         /\ (Signalled(w) \/ (pc # "dropped" /\ state = "Closed")))
            ~> (w <= Len(tasks) /\ tasks[w] = "done")

\* the first worker has terminated because a second _f replaced its Sender,
\* the second one because close() sent on its channel
C30_Witness ==
    /\ Len(tasks) = 2
    /\ tasks = <<"done", "done">>
    /\ state = "Closed"
    /\ call = "close"

=========================================================================
